---- MODULE Spec2Model ----
(***************************************************************************)
(* ESP32WebSocketControl: the protocol engine of the library               *)
(* (lib/ESP32WebSocketLib/ESP32WebSocket.h: variable registry, message     *)
(* router, streaming flag, auto-stop on last disconnect) together with the *)
(* sampling application that uses it (src/main.cpp: stream hooks, sample   *)
(* buffer, loop()).                                                        *)
(*                                                                         *)
(* The WebSocket event handler runs in the asynchronous TCP task; each     *)
(* handled event is one action.  loop() runs in the Arduino loop task; it  *)
(* is modelled statement by statement (loopPc), so that the handlers,      *)
(* which share isAppStreaming, currentBufferIndex and sensorDataBuffer     *)
(* with it without any lock, interleave with its statements.               *)
(*                                                                         *)
(* Numbers: a JSON number and a float/double of the program is an integer  *)
(* count of 1/Den units (Den = 2^18), so 125.5 is 125*Den + Den \div 2.    *)
(* A C++ float keeps FLT_MANT_DIG significant bits: ToFloat32 rounds to    *)
(* them.  An int of the program is a plain integer.                        *)
(***************************************************************************)
EXTENDS Integers, Sequences, FiniteSets, TLC

\* ------------------------------------------------------------------ bounds

\* Connection identifiers the transport hands out.
MaxClients == 2

\* The last value of the millisecond clock.
MaxMillis == 1

\* ------------------------------------------------------- program constants

\* main.cpp: const int SAMPLES_PER_CHUNK = 25
SAMPLES_PER_CHUNK == 25
\* main.cpp: sizeof(SensorDataPacket), 6 * uint16_t + uint32_t, packed
PACKET_SIZE_BYTES == 16
\* main.cpp: CHUNK_BUFFER_SIZE_BYTES = SAMPLES_PER_CHUNK * PACKET_SIZE_BYTES
CHUNK_BUFFER_SIZE_BYTES == SAMPLES_PER_CHUNK * PACKET_SIZE_BYTES
\* significant bits of the C++ type float (VariableConfig::floatValue)
FLT_MANT_DIG == 24

\* The grid of the fixed-point representation of JSON numbers and doubles.
Den == 2^18

ClientIds == 1..MaxClients

\* ------------------------------------------------------------- arithmetic

Abs(x) == IF x < 0 THEN -x ELSE x

Sgn(x) == IF x < 0 THEN -1 ELSE 1

\* Number of bits of a natural number (0 for 0).
RECURSIVE BitLen(_)
BitLen(m) == IF m = 0 THEN 0 ELSE 1 + BitLen(m \div 2)

\* static_cast<float>(double): round to nearest, ties to even, keeping
\* FLT_MANT_DIG significant bits.  x is in 1/Den units, and so is the result.
ToFloat32(x) ==
    LET m    == Abs(x)
        drop == BitLen(m) - FLT_MANT_DIG
        unit == 2^drop
        q    == m \div unit
        r    == m % unit
        up   == (2 * r > unit) \/ (2 * r = unit /\ q % 2 = 1)
    IN  IF drop <= 0 THEN x
        ELSE Sgn(x) * (IF up THEN q + 1 ELSE q) * unit

\* static_cast<int>(double) for a value in int range: truncation towards 0.
TruncToInt(x) == Sgn(x) * (Abs(x) \div Den)

\* static_cast<double>(int), exact.
IntToDouble(n) == n * Den

\* ------------------------------------------------------- uint32_t values

\* A uint32_t is kept as its two 16-bit halves, [hi, lo]: the value is
\* hi * 65536 + lo, and arithmetic wraps at 2^32.
UINT16_RANGE == 65536

\* The uint32_t of a number 0 <= n < 2^31.
U32(n) == [hi |-> n \div UINT16_RANGE, lo |-> n % UINT16_RANGE]

\* The largest uint32_t, 2^32 - 1.
U32Max == [hi |-> UINT16_RANGE - 1, lo |-> UINT16_RANGE - 1]

\* a + n in uint32_t, for a number 0 <= n < 2^15.
U32Add(a, n) ==
    LET lo == a.lo + n
    IN  [hi |-> (a.hi + lo \div UINT16_RANGE) % UINT16_RANGE,
         lo |-> lo % UINT16_RANGE]

\* a - b in uint32_t: the difference modulo 2^32.
U32Sub(a, b) ==
    LET lo     == a.lo - b.lo
        borrow == IF lo < 0 THEN 1 ELSE 0
    IN  [hi |-> (a.hi - b.hi - borrow + UINT16_RANGE) % UINT16_RANGE,
         lo |-> (lo + UINT16_RANGE) % UINT16_RANGE]

\* ------------------------------------------------------------ JSON values

\* A parsed JSON value (ArduinoJson JsonVariant): kind k, number n (1/Den
\* units) and string s.  An integer literal has kind "int", a literal with a
\* decimal point or exponent has kind "float".
JInt(i)    == [k |-> "int",   n |-> i * Den, s |-> ""]
JFloat(x)  == [k |-> "float", n |-> x,       s |-> ""]
JStr(str)  == [k |-> "str",   n |-> 0,       s |-> str]
JBool      == [k |-> "bool",  n |-> Den,     s |-> ""]
JNull      == [k |-> "null",  n |-> 0,       s |-> ""]
\* No such key in the document (jsonDoc["value"] of an absent key is null).
JAbsent    == [k |-> "absent", n |-> 0,      s |-> ""]

\* JsonVariant::is<int>(): an integer that fits in int.
IsInt(v) == v.k = "int"

\* JsonVariant::is<float>(): any number, integer or floating.
IsFloat(v) == v.k \in {"int", "float"}

\* JsonVariant::is<const char*>() || is<String>().
IsString(v) == v.k = "str"

\* JsonVariant::as<float>(): the number as a 32-bit float (0 if no number).
AsFloat(v) == IF IsFloat(v) THEN ToFloat32(v.n) ELSE 0

\* JsonVariant::as<int>(): the number truncated to int (0 if no number).
AsInt(v) == IF IsFloat(v) THEN TruncToInt(v.n) ELSE 0

\* JsonVariant::isNull(): null, or a key that is absent.
IsNull(v) == v.k \in {"null", "absent"}

\* A string of 80 characters.  A set frame carrying it parses within the
\* StaticJsonDocument<256> of the handler, and its echo fits the
\* StaticJsonDocument<256> of the value response.
LongLabel == "ESP32-WS-CONTROL-BOARD-0123456789-ABCDEFGHIJKLMNOPQRSTUVWXYZ-0123456789-LAB-0001"

\* A const char* that is a null pointer: the key is absent or no string.
NullStr == "(null)"

\* --------------------------------------------------------------- registry

\* One VariableConfig.  intValue is an int; floatValue (a float), minVal and
\* maxVal (doubles) are in 1/Den units.
VariableConfig(name, type, intValue, floatValue, stringValue, minVal, maxVal, hasLimits) ==
    [name |-> name, type |-> type, intValue |-> intValue,
     floatValue |-> floatValue, stringValue |-> stringValue,
     minVal |-> minVal, maxVal |-> maxVal, hasLimits |-> hasLimits]

\* main.cpp: configurableVariables[]
configurableVariables ==
    << VariableConfig("led_intensity",   "TYPE_INT",    128, 0, "",         0 * Den,  255 * Den,  TRUE),
       VariableConfig("update_interval", "TYPE_INT",    500, 0, "",         50 * Den, 5000 * Den, TRUE),
       VariableConfig("motor_enable",    "TYPE_INT",    0,   0, "",         0 * Den,  1 * Den,    TRUE),
       VariableConfig("device_label",    "TYPE_STRING", 0,   0, "ESP32-01", 0,        0,          FALSE) >>

\* A second array an application may hand to initWiFiWebSocketServer: a
\* bounded and an unbounded float, an unbounded int, a string whose hasLimits
\* is set, and a name that occurs twice.
libraryVariables ==
    << VariableConfig("gain",   "TYPE_FLOAT",  0, 1 * Den, "",    0 * Den, 128 * Den, TRUE),
       VariableConfig("offset", "TYPE_FLOAT",  0, 0,       "",    0,       0,         FALSE),
       VariableConfig("count",  "TYPE_INT",    7, 0,       "",    0,       0,         FALSE),
       VariableConfig("label",  "TYPE_STRING", 0, 0,       "a",   1 * Den, 2 * Den,   TRUE),
       VariableConfig("gain",   "TYPE_INT",    3, 0,       "",    0 * Den, 9 * Den,   TRUE) >>

\* The array element at a C index (0-based).
VarAt(vs, index) == vs[index + 1]

\* A VariableConfig* that points to no array.
nullptr == << >>

\* for (i = 0; i < _numVariables; i++): the least C index i in from..n-1
\* whose name is `name`, else -1.
RECURSIVE FindFrom(_, _, _, _)
FindFrom(vs, n, name, i) ==
    IF i >= n THEN -1
    ELSE IF VarAt(vs, i).name = name THEN i
    ELSE FindFrom(vs, n, name, i + 1)

\* A faulty lookup: a name that matches no entry yields the first entry.
FindOrFirst(vs, n, name) ==
    IF vs = nullptr \/ n <= 0 \/ name = NullStr THEN -1
    ELSE IF FindFrom(vs, n, name, 0) = -1 THEN 0 ELSE FindFrom(vs, n, name, 0)

\* findVariableIndexInternal, with _variables = vs and _numVariables = n:
\* -1 if the array is absent or the count is not positive, or the name is
\* absent (a null pointer) or matches no entry; else the first match.
findVariableIndexInternal(vs, n, name) ==
    IF vs = nullptr \/ n <= 0 \/ name = NullStr THEN -1 ELSE FindFrom(vs, n, name, 0)

\* A faulty limits test: the ends are excluded.
LimitsExclusive(var, x) ==
    ~(var.hasLimits /\ (x <= var.minVal \/ x >= var.maxVal))

\* The limits test of setVariableValueInternal, on the converted value x as a
\* double: false when hasLimits and x < minVal or x > maxVal.
WithinLimits(var, x) ==
    ~(var.hasLimits /\ (x < var.minVal \/ x > var.maxVal))

\* The type test of case TYPE_INT:
\*   is<int>() || (is<float>() && as<float>() == (int)as<float>())
\* The comparison converts the int back to float, so it asks whether the
\* 32-bit float nearest to the candidate is whole.
IntCompatible(v) ==
    IsInt(v) \/ (IsFloat(v) /\ AsFloat(v) = IntToDouble(TruncToInt(AsFloat(v))))

\* The type test of case TYPE_FLOAT: is<float>() || is<int>().
FloatCompatible(v) == IsFloat(v) \/ IsInt(v)

\* The value a variable holds, as the JSON value put in a response
\* (jsonDoc["value"] = var.intValue / floatValue / stringValue).
ValueOf(var) ==
    CASE var.type = "TYPE_INT"    -> JInt(var.intValue)
      [] var.type = "TYPE_FLOAT"  -> JFloat(var.floatValue)
      [] var.type = "TYPE_STRING" -> JStr(var.stringValue)
      [] OTHER                    -> JNull

\* A faulty store: a number stored also becomes the variable's maximum.
StoreRaisesMax(var, v) ==
    CASE var.type = "TYPE_INT"    -> [var EXCEPT !.intValue = AsInt(v), !.maxVal = v.n]
      [] var.type = "TYPE_FLOAT"  -> [var EXCEPT !.floatValue = AsFloat(v), !.maxVal = v.n]
      [] OTHER                    -> [var EXCEPT !.stringValue = v.s]

\* A faulty store: floatValue taken to be a double.
StoreFloatAsDouble(var, v) ==
    CASE var.type = "TYPE_INT"    -> [var EXCEPT !.intValue = AsInt(v)]
      [] var.type = "TYPE_FLOAT"  -> [var EXCEPT !.floatValue = v.n]
      [] OTHER                    -> [var EXCEPT !.stringValue = v.s]

\* The field a successful set writes, given the variable and the candidate:
\* var.intValue = as<int>(), var.floatValue = as<float>(), or
\* var.stringValue = as<String>().
StoreConverted(var, v) ==
    CASE var.type = "TYPE_INT"    -> [var EXCEPT !.intValue = AsInt(v)]
      [] var.type = "TYPE_FLOAT"  -> [var EXCEPT !.floatValue = AsFloat(v)]
      [] OTHER                    -> [var EXCEPT !.stringValue = v.s]

\* A faulty acceptance: an integer variable takes any whole number.
AcceptsIntUnchecked(var, v) ==
    CASE var.type = "TYPE_INT"    -> IntCompatible(v)
      [] var.type = "TYPE_FLOAT"  ->
             FloatCompatible(v) /\ WithinLimits(var, AsFloat(v))
      [] var.type = "TYPE_STRING" -> IsString(v)
      [] OTHER                    -> FALSE

\* A faulty acceptance: a string variable with limits takes a number within
\* them.
AcceptsNumberAsText(var, v) ==
    CASE var.type = "TYPE_INT"    ->
             IntCompatible(v) /\ WithinLimits(var, IntToDouble(AsInt(v)))
      [] var.type = "TYPE_FLOAT"  ->
             FloatCompatible(v) /\ WithinLimits(var, AsFloat(v))
      [] var.type = "TYPE_STRING" ->
             IsString(v) \/ (var.hasLimits /\ IsFloat(v) /\ WithinLimits(var, AsFloat(v)))
      [] OTHER                    -> FALSE

\* A faulty acceptance: a float variable takes no integer literal.
AcceptsNoIntForFloat(var, v) ==
    CASE var.type = "TYPE_INT"    ->
             IntCompatible(v) /\ WithinLimits(var, IntToDouble(AsInt(v)))
      [] var.type = "TYPE_FLOAT"  ->
             v.k = "float" /\ WithinLimits(var, AsFloat(v))
      [] var.type = "TYPE_STRING" -> IsString(v)
      [] OTHER                    -> FALSE

\* Whether setVariableValueInternal accepts candidate v for variable var.
Accepts(var, v) ==
    CASE var.type = "TYPE_INT"    ->
             IntCompatible(v) /\ WithinLimits(var, IntToDouble(AsInt(v)))
      [] var.type = "TYPE_FLOAT"  ->
             FloatCompatible(v) /\ WithinLimits(var, AsFloat(v))
      [] var.type = "TYPE_STRING" -> IsString(v)
      [] OTHER                    -> FALSE

\* A faulty set: every entry of the name is written, not the first alone.
SetWritesAllNamed(vs, n, index, v) ==
    IF vs = nullptr \/ index < 0 \/ index >= n THEN [ok |-> FALSE, vars |-> vs]
    ELSE IF Accepts(VarAt(vs, index), v)
         THEN [ok |-> TRUE,
               vars |-> [i \in 1..Len(vs) |->
                            IF vs[i].name = VarAt(vs, index).name
                            THEN StoreConverted(vs[i], v)
                            ELSE vs[i]]]
         ELSE [ok |-> FALSE, vars |-> vs]

\* A faulty set: the field is written before the candidate is validated.
RejectedStillWrites(vs, n, index, v) ==
    IF vs = nullptr \/ index < 0 \/ index >= n THEN [ok |-> FALSE, vars |-> vs]
    ELSE [ok   |-> Accepts(VarAt(vs, index), v),
          vars |-> [vs EXCEPT ![index + 1] = StoreConverted(VarAt(vs, index), v)]]

\* setVariableValueInternal(index, newValueVariant), with _variables = vs and
\* _numVariables = n: the result (true/false) and the array afterwards.  A
\* rejected candidate writes nothing.
setVariableValueInternal(vs, n, index, v) ==
    IF vs = nullptr \/ index < 0 \/ index >= n THEN [ok |-> FALSE, vars |-> vs]
    ELSE IF Accepts(VarAt(vs, index), v)
         THEN [ok |-> TRUE,
               vars |-> [vs EXCEPT ![index + 1] = StoreConverted(VarAt(vs, index), v)]]
         ELSE [ok |-> FALSE, vars |-> vs]

\* ------------------------------------------------------------------ state

VARIABLES
    \* library (ESP32WebSocket.h)
    _variables,              \* the application's VariableConfig array
    _numVariables,           \* the number of entries the application declared
    wsOnEvent,               \* TRUE: onWebSocketEvent is attached to ws
    _onStreamStartCallback,  \* TRUE: a start hook is registered (not nullptr)
    _onStreamStopCallback,   \* TRUE: a stop hook is registered (not nullptr)
    _isStreaming,            \* the library's streaming flag
    wsClients,               \* ids of the connected clients (ws.count() of them)
    \* application (main.cpp)
    isAppStreaming,          \* the flag loop() samples under
    currentBufferIndex,      \* next free slot of sensorDataBuffer
    loopPc,                  \* the statement loop() is at
    idxReg,                  \* loop()'s register copy of currentBufferIndex
    currentTimeMs,           \* loop()'s timestamp of the sample in hand
    streamStartTimeMs,       \* the reference time of the stream, a uint32_t
    millis,                  \* the milliseconds passed since Init
    millisAtInit,            \* what millis() returned at Init, a uint32_t
    \* observation of the latest step
    evt,                     \* the event or statement just executed
    wsOut,                   \* the messages it sent, in order
    hookCalls,               \* the hooks it invoked, in order
    \* history
    chunkIntact,             \* every slot of sensorDataBuffer below
                             \* currentBufferIndex holds a sample written since
                             \* the latest flush or start hook
    sampleFresh,             \* at loopPc = "incr": the sample this iteration
                             \* wrote was written after the latest start hook
    sampleMillis,            \* what millis() returned when the sample in
                             \* hand was taken
    chunkStamps,             \* every slot below currentBufferIndex holds a
                             \* time_ms that is its sample's time minus
                             \* streamStartTimeMs, modulo 2^32
    run,                     \* the current run of disconnect events
    \* web client (data/js)
    browser                  \* per connection id: the page that uses it

vars == << _variables, _numVariables, wsOnEvent, _onStreamStartCallback, _onStreamStopCallback,
           _isStreaming, wsClients, isAppStreaming, currentBufferIndex,
           loopPc, idxReg, currentTimeMs, streamStartTimeMs, millis,
           millisAtInit, evt, wsOut, hookCalls, chunkIntact, sampleFresh,
           sampleMillis, chunkStamps, run, browser >>

libVars == << _variables, _numVariables, wsOnEvent, _onStreamStartCallback, _onStreamStopCallback,
              _isStreaming, wsClients >>

loopVars == << loopPc, idxReg, currentTimeMs, sampleMillis >>

\* millis(): the clock at Init plus the milliseconds passed, in uint32_t.
millisRead == U32Add(millisAtInit, millis)

\* --------------------------------------------------------------- messages

\* sendStatusInternal(clientId, status, message): one text frame to one client.
StatusMsg(clientId, status, message) ==
    [kind |-> "status", to |-> {clientId}, status |-> status,
     message |-> message, variable |-> NullStr, value |-> JNull,
     variables |-> << >>, len |-> 0, intact |-> FALSE]

\* A faulty value response: sent to every client (ws.textAll).
ValueToAll(clientId, var) ==
    [kind |-> "value", to |-> wsClients, status |-> NullStr,
     message |-> NullStr, variable |-> var.name, value |-> ValueOf(var),
     variables |-> << >>, len |-> 0, intact |-> FALSE]

\* sendVariableValueInternal(clientId, variableIndex): {"variable","value"}.
ValueMsg(clientId, var) ==
    [kind |-> "value", to |-> {clientId}, status |-> NullStr,
     message |-> NullStr, variable |-> var.name, value |-> ValueOf(var),
     variables |-> << >>, len |-> 0, intact |-> FALSE]

\* broadcastVariableUpdate's message: {"variable","value"} to every client
\* (ws.textAll).
ValueUpdateMsg(clients, var) ==
    [kind |-> "value", to |-> clients, status |-> NullStr,
     message |-> NullStr, variable |-> var.name, value |-> ValueOf(var),
     variables |-> << >>, len |-> 0, intact |-> FALSE]

\* sizeof(VariantSlot) of ArduinoJson 6 on the ESP32: what one array element
\* or one object member takes from a document's memory pool.
VARIANT_SLOT_SIZE == 16

\* The bytes get_all_vars_config reserves per variable.
avgBytesPerVar == 100

\* DynamicJsonDocument responseDoc(_numVariables * avgBytesPerVar + 128): the
\* capacity is fixed at construction.
ConfigListCapacity(n) == n * avgBytesPerVar + 128

Min(a, b) == IF a <= b THEN a ELSE b

\* The members the code sets in one entry, in the order it sets them; "min"
\* and "max" only for a variable with limits.  The names and the type are
\* const char* and stored by pointer.
MemberKeys == << "name", "type", "value", "hasLimits", "min", "max" >>

WantedMembers(var) == IF var.hasLimits THEN Len(MemberKeys) ELSE Len(MemberKeys) - 2

\* varTypeToCharString(type).
varTypeToCharString(type) ==
    CASE type = "TYPE_INT"    -> "INT"
      [] type = "TYPE_FLOAT"  -> "FLOAT"
      [] type = "TYPE_STRING" -> "STRING"
      [] OTHER                -> "UNKNOWN"

\* With `free` bytes left in the pool: the slots taken by "name", "type" and
\* "value"; a member is not added once less than a slot is left.
HeadSlots(free) == Min(3, free \div VARIANT_SLOT_SIZE)

FreeAfterHead(free) == free - HeadSlots(free) * VARIANT_SLOT_SIZE

\* varObj["value"] = stringValue (an Arduino String) copies the characters
\* and the terminator into the pool; an int or a float lives in the slot.
ValueCopyBytes(var) ==
    IF var.type = "TYPE_STRING" THEN Len(var.stringValue) + 1 ELSE 0

\* The "value" member holds the value: it was added, and the copy fitted.
\* A copy that does not fit leaves the member null.
ValueStored(var, free) ==
    HeadSlots(free) = 3 /\ ValueCopyBytes(var) <= FreeAfterHead(free)

FreeAfterValue(var, free) ==
    FreeAfterHead(free) - (IF ValueStored(var, free) THEN ValueCopyBytes(var) ELSE 0)

\* The slots taken by "hasLimits", "min" and "max".
TailSlots(var, free) ==
    Min(WantedMembers(var) - 3, FreeAfterValue(var, free) \div VARIANT_SLOT_SIZE)

FreeAfterEntry(var, free) ==
    FreeAfterValue(var, free) - TailSlots(var, free) * VARIANT_SLOT_SIZE

\* One entry of the "variables" array of the var_config_list response, built
\* with `free` bytes left in the pool: `keys` are the members it got.
ConfigEntry(var, free) ==
    [keys |-> {MemberKeys[k] : k \in 1..(HeadSlots(free) + TailSlots(var, free))},
     name |-> var.name,
     type |-> varTypeToCharString(var.type),
     value |-> IF ValueStored(var, free) THEN ValueOf(var) ELSE JNull,
     hasLimits |-> var.hasLimits,
     min |-> IF var.hasLimits THEN JFloat(var.minVal) ELSE JAbsent,
     max |-> IF var.hasLimits THEN JFloat(var.maxVal) ELSE JAbsent]

\* for (i = 0; i < _numVariables; i++): createNestedObject() takes one slot
\* for the array element; when it cannot, this entry and every later one is
\* missing from the array.
RECURSIVE ConfigEntries(_, _, _, _)
ConfigEntries(vs, n, i, free) ==
    IF i > n \/ free < VARIANT_SLOT_SIZE
    THEN << >>
    ELSE << ConfigEntry(vs[i], free - VARIANT_SLOT_SIZE) >>
         \o ConfigEntries(vs, n, i + 1, FreeAfterEntry(vs[i], free - VARIANT_SLOT_SIZE))

\* The var_config_list response of get_all_vars_config: the root object
\* takes two slots ("status", "variables"), then the entries are built in
\* what is left.
ConfigListMsg(clientId, vs, n) ==
    [kind |-> "var_config_list", to |-> {clientId}, status |-> "var_config_list",
     message |-> NullStr, variable |-> NullStr, value |-> JNull,
     variables |-> ConfigEntries(vs, n, 1, ConfigListCapacity(n) - 2 * VARIANT_SLOT_SIZE),
     len |-> 0, intact |-> FALSE]

\* ws.binaryAll(data, len): one binary frame of len bytes to every connected
\* client.  `intact` records whether the whole buffer sent consists of
\* samples written since the latest flush or start hook.
BinaryMsg(clients, len, intact) ==
    [kind |-> "binary", to |-> clients, status |-> NullStr,
     message |-> NullStr, variable |-> NullStr, value |-> JNull,
     variables |-> << >>, len |-> len, intact |-> intact]

\* ----------------------------------------------------------------- frames

\* A frame a client sends: its opcode, whether it arrives whole (final, index
\* 0, complete), whether its text parses as JSON, and the fields the handler
\* reads: "action" and "variable" as const char* (NullStr when the key is
\* absent or no string) and "value".
TextFrame(action, variable, value) ==
    [opcode |-> "text", whole |-> TRUE, json |-> TRUE,
     action |-> action, variable |-> variable, value |-> value]

InvalidJsonFrame ==
    [opcode |-> "text", whole |-> TRUE, json |-> FALSE,
     action |-> NullStr, variable |-> NullStr, value |-> JAbsent]

FragmentFrame ==
    [opcode |-> "text", whole |-> FALSE, json |-> TRUE,
     action |-> "start_stream", variable |-> NullStr, value |-> JAbsent]

BinaryFrame ==
    [opcode |-> "binary", whole |-> TRUE, json |-> FALSE,
     action |-> NullStr, variable |-> NullStr, value |-> JAbsent]

GetFrame(name) == TextFrame("get", name, JAbsent)

SetFrame(name, value) == TextFrame("set", name, value)

ActionFrame(action) == TextFrame(action, NullStr, JAbsent)

\* ------------------------------------------------------------------ hooks

\* A faulty start hook: the reference time is not recorded.
StartKeepsTime ==
    /\ currentBufferIndex' = 0
    /\ isAppStreaming' = TRUE
    /\ chunkIntact' = TRUE
    /\ chunkStamps' = TRUE
    /\ sampleFresh' = FALSE
    /\ UNCHANGED streamStartTimeMs

\* application_onStreamStart: reset the index, record the start time, set
\* the flag.  No slot is below the index now; a sample loop() has written
\* but not yet counted predates this start.
application_onStreamStart ==
    /\ currentBufferIndex' = 0
    /\ streamStartTimeMs' = millisRead
    /\ isAppStreaming' = TRUE
    /\ chunkIntact' = TRUE
    /\ chunkStamps' = TRUE
    /\ sampleFresh' = FALSE

\* A faulty stop hook: the flag is left set.
StopKeepsSampling ==
    UNCHANGED << isAppStreaming, currentBufferIndex, streamStartTimeMs, chunkIntact,
                 chunkStamps, sampleFresh >>

\* application_onStreamStop: clear the flag; the buffer and its index stay.
application_onStreamStop ==
    /\ isAppStreaming' = FALSE
    /\ UNCHANGED << currentBufferIndex, streamStartTimeMs, chunkIntact, chunkStamps,
                    sampleFresh >>

\* No hook is invoked.
NoHook ==
    UNCHANGED << isAppStreaming, currentBufferIndex, streamStartTimeMs,
                 chunkIntact, chunkStamps, sampleFresh >>

\* The hooks a handler decided to invoke, applied in order (at most one).
InvokeHook(hook) ==
    CASE hook = "start" -> application_onStreamStart
      [] hook = "stop"  -> application_onStreamStop
      [] OTHER          -> NoHook

\* ----------------------------------------------------------------- router

\* What handling one event decides: the messages sent, the hook invoked
\* ("start", "stop" or "none"), and the library state afterwards.
Outcome(out, hook, streaming, vs) ==
    [out |-> out, hook |-> hook, streaming |-> streaming, vars |-> vs]

\* A response that changes nothing.
Reply(msg) == Outcome(<< msg >>, "none", _isStreaming, _variables)

\* Nothing is sent and nothing changes.
Ignore == Outcome(<< >>, "none", _isStreaming, _variables)

\* A faulty get/set: the value of a set is looked at before the name is
\* looked up.
GetSetValueFirst(clientId, f) ==
    IF f.variable = NullStr
    THEN Reply(StatusMsg(clientId, "error", "Missing 'variable' field for get/set action."))
    ELSE IF f.action = "set" /\ (f.value.k = "absent" \/ IsNull(f.value))
    THEN Reply(StatusMsg(clientId, "error", "Missing or null 'value' field for set action."))
    ELSE LET varIndex == findVariableIndexInternal(_variables, _numVariables, f.variable) IN
         IF varIndex = -1
         THEN Reply(StatusMsg(clientId, "error", "Variable name not found."))
         ELSE IF f.action = "get"
         THEN Reply(ValueMsg(clientId, VarAt(_variables, varIndex)))
         ELSE LET r == setVariableValueInternal(_variables, _numVariables, varIndex, f.value) IN
              IF r.ok
              THEN Outcome(<< ValueMsg(clientId, VarAt(r.vars, varIndex)) >>,
                           "none", _isStreaming, r.vars)
              ELSE Outcome(<< StatusMsg(clientId, "error",
                                "Failed to set value (invalid type or out of limits).") >>,
                           "none", _isStreaming, r.vars)

\* onWebSocketEvent, WS_EVT_DATA, action "get" or "set".
HandleGetSet(clientId, f) ==
    IF f.variable = NullStr
    THEN Reply(StatusMsg(clientId, "error", "Missing 'variable' field for get/set action."))
    ELSE LET varIndex == findVariableIndexInternal(_variables, _numVariables, f.variable) IN
         IF varIndex = -1
         THEN Reply(StatusMsg(clientId, "error", "Variable name not found."))
         ELSE IF f.action = "get"
         THEN Reply(ValueMsg(clientId, VarAt(_variables, varIndex)))
         ELSE IF f.value.k = "absent" \/ IsNull(f.value)
         THEN Reply(StatusMsg(clientId, "error", "Missing or null 'value' field for set action."))
         ELSE LET r == setVariableValueInternal(_variables, _numVariables, varIndex, f.value) IN
              IF r.ok
              THEN Outcome(<< ValueMsg(clientId, VarAt(r.vars, varIndex)) >>,
                           "none", _isStreaming, r.vars)
              ELSE Outcome(<< StatusMsg(clientId, "error",
                                "Failed to set value (invalid type or out of limits).") >>,
                           "none", _isStreaming, r.vars)

\* A faulty start_stream: the start hook is invoked, the flag is left clear.
StartKeepsFlag(clientId) ==
    IF _onStreamStartCallback
    THEN IF ~_isStreaming
         THEN Outcome(<< StatusMsg(clientId, "ok", "Stream started.") >>,
                      "start", _isStreaming, _variables)
         ELSE Reply(StatusMsg(clientId, "info", "Stream was already active."))
    ELSE Reply(StatusMsg(clientId, "error", "Streaming feature not implemented/configured."))

\* A faulty start_stream: it needs the stop hook as well.
StartNeedsBothHooks(clientId) ==
    IF _onStreamStartCallback /\ _onStreamStopCallback
    THEN IF ~_isStreaming
         THEN Outcome(<< StatusMsg(clientId, "ok", "Stream started.") >>,
                      "start", TRUE, _variables)
         ELSE Reply(StatusMsg(clientId, "info", "Stream was already active."))
    ELSE Reply(StatusMsg(clientId, "error", "Streaming feature not implemented/configured."))

\* A faulty start_stream: the streaming flag is not consulted.
StartAlways(clientId) ==
    IF _onStreamStartCallback
    THEN Outcome(<< StatusMsg(clientId, "ok", "Stream started.") >>,
                 "start", TRUE, _variables)
    ELSE Reply(StatusMsg(clientId, "error", "Streaming feature not implemented/configured."))

\* onWebSocketEvent, WS_EVT_DATA, action "start_stream".
HandleStartStream(clientId) ==
    IF _onStreamStartCallback
    THEN IF ~_isStreaming
         THEN Outcome(<< StatusMsg(clientId, "ok", "Stream started.") >>,
                      "start", TRUE, _variables)
         ELSE Reply(StatusMsg(clientId, "info", "Stream was already active."))
    ELSE Reply(StatusMsg(clientId, "error", "Streaming feature not implemented/configured."))

\* A faulty stop_stream: the streaming flag is not consulted.
StopAlways(clientId) ==
    IF _onStreamStopCallback
    THEN Outcome(<< StatusMsg(clientId, "ok", "Stream stopped.") >>,
                 "stop", FALSE, _variables)
    ELSE Reply(StatusMsg(clientId, "error", "Streaming feature not implemented/configured."))

\* A faulty stop_stream: the flag is cleared whether or not a stop hook is
\* registered.
StopWithoutHook(clientId) ==
    IF _isStreaming
    THEN Outcome(<< StatusMsg(clientId, "ok", "Stream stopped.") >>,
                 IF _onStreamStopCallback THEN "stop" ELSE "none", FALSE, _variables)
    ELSE Reply(StatusMsg(clientId, "info", "Stream was already stopped."))

\* onWebSocketEvent, WS_EVT_DATA, action "stop_stream".
HandleStopStream(clientId) ==
    IF _onStreamStopCallback
    THEN IF _isStreaming
         THEN Outcome(<< StatusMsg(clientId, "ok", "Stream stopped.") >>,
                      "stop", FALSE, _variables)
         ELSE Reply(StatusMsg(clientId, "info", "Stream was already stopped."))
    ELSE Reply(StatusMsg(clientId, "error", "Streaming feature not implemented/configured."))

\* A faulty get_all_vars_config: the list is built whatever the registry.
ConfigListAlways(clientId) ==
    Reply(ConfigListMsg(clientId, _variables, _numVariables))

\* onWebSocketEvent, WS_EVT_DATA, action "get_all_vars_config".
HandleGetAllVarsConfig(clientId) ==
    IF _variables = nullptr \/ _numVariables <= 0
    THEN Reply(StatusMsg(clientId, "error", "No variables configured on server."))
    ELSE Reply(ConfigListMsg(clientId, _variables, _numVariables))

\* A faulty router: text that does not parse is dropped without a response.
HandleTextDropsInvalid(clientId, f) ==
    IF ~f.json
    THEN Ignore
    ELSE IF f.action = NullStr
    THEN Reply(StatusMsg(clientId, "error", "JSON missing 'action' field."))
    ELSE IF f.action \in {"get", "set"} THEN HandleGetSet(clientId, f)
    ELSE IF f.action = "start_stream" THEN HandleStartStream(clientId)
    ELSE IF f.action = "stop_stream" THEN HandleStopStream(clientId)
    ELSE IF f.action = "get_all_vars_config" THEN HandleGetAllVarsConfig(clientId)
    ELSE Reply(StatusMsg(clientId, "error", "Unknown 'action' command."))

\* A faulty router: the action is compared without regard to case, so
\* "START_STREAM" is routed as start_stream.
HandleTextFoldingCase(clientId, f) ==
    IF ~f.json
    THEN Reply(StatusMsg(clientId, "error", "Invalid JSON format received."))
    ELSE IF f.action = NullStr
    THEN Reply(StatusMsg(clientId, "error", "JSON missing 'action' field."))
    ELSE IF f.action \in {"get", "set"} THEN HandleGetSet(clientId, f)
    ELSE IF f.action \in {"start_stream", "START_STREAM"} THEN HandleStartStream(clientId)
    ELSE IF f.action = "stop_stream" THEN HandleStopStream(clientId)
    ELSE IF f.action = "get_all_vars_config" THEN HandleGetAllVarsConfig(clientId)
    ELSE Reply(StatusMsg(clientId, "error", "Unknown 'action' command."))

\* onWebSocketEvent, WS_EVT_DATA, a whole text frame.
HandleText(clientId, f) ==
    IF ~f.json
    THEN Reply(StatusMsg(clientId, "error", "Invalid JSON format received."))
    ELSE IF f.action = NullStr
    THEN Reply(StatusMsg(clientId, "error", "JSON missing 'action' field."))
    ELSE IF f.action \in {"get", "set"} THEN HandleGetSet(clientId, f)
    ELSE IF f.action = "start_stream" THEN HandleStartStream(clientId)
    ELSE IF f.action = "stop_stream" THEN HandleStopStream(clientId)
    ELSE IF f.action = "get_all_vars_config" THEN HandleGetAllVarsConfig(clientId)
    ELSE Reply(StatusMsg(clientId, "error", "Unknown 'action' command."))

\* A faulty handler: a whole frame is routed whatever its opcode.
HandleDataAnyOpcode(clientId, f) ==
    IF f.whole THEN HandleText(clientId, f) ELSE Ignore

\* onWebSocketEvent, WS_EVT_DATA: a whole text frame is routed; a binary
\* frame, and a text frame that is not whole, is ignored.
HandleData(clientId, f) ==
    IF f.opcode = "text" /\ f.whole THEN HandleText(clientId, f) ELSE Ignore

\* A faulty disconnect: the stream is never stopped.
DisconnectNeverStops(count) == Ignore

\* A faulty disconnect: the number of clients left is not consulted.
DisconnectNoCountTest(count) ==
    IF _isStreaming /\ _onStreamStopCallback
    THEN Outcome(<< >>, "stop", FALSE, _variables)
    ELSE Ignore

\* A faulty disconnect: the stop hook is invoked, the flag is left set.
DisconnectKeepsFlag(count) ==
    IF _isStreaming /\ count = 0 /\ _onStreamStopCallback
    THEN Outcome(<< >>, "stop", _isStreaming, _variables)
    ELSE Ignore

\* A faulty disconnect: the streaming flag is not consulted.
DisconnectNoStreamingTest(count) ==
    IF count = 0 /\ _onStreamStopCallback
    THEN Outcome(<< >>, "stop", FALSE, _variables)
    ELSE Ignore

\* A faulty disconnect: the auto-stop is announced like an explicit stop.
DisconnectAnnounces(count) ==
    IF _isStreaming /\ count = 0 /\ _onStreamStopCallback
    THEN Outcome(<< [StatusMsg(0, "ok", "Stream stopped.") EXCEPT !.to = ClientIds] >>,
                 "stop", FALSE, _variables)
    ELSE Ignore

\* onWebSocketEvent, WS_EVT_DISCONNECT, with `count` clients left: auto-stop
\* when streaming, no client is left and a stop hook is registered.
HandleDisconnect(count) ==
    IF _isStreaming /\ count = 0 /\ _onStreamStopCallback
    THEN Outcome(<< >>, "stop", FALSE, _variables)
    ELSE Ignore

\* The run of disconnect events that starts in the current state: how many
\* clients are connected, whether the stream is on with a stop hook
\* registered, (so far) no stop hook invoked by a disconnect, and whether
\* the latest disconnect was a repeated one.
NewRun(clients, streaming, stopCb) ==
    [n |-> Cardinality(clients), streaming |-> streaming /\ stopCb, stops |-> 0,
     again |-> FALSE]

HookSeq(hook) == IF hook = "none" THEN << >> ELSE << hook >>

\* ---------------------------------------------------------------- actions

\* WS_EVT_CONNECT for a new client: the handler only logs.
WsEvtConnect(clientId) ==
    /\ wsOnEvent
    /\ clientId \notin wsClients
    /\ wsClients' = wsClients \cup {clientId}
    /\ evt' = [type |-> "connect", id |-> clientId, frame |-> BinaryFrame]
    /\ wsOut' = << >>
    /\ hookCalls' = << >>
    /\ run' = NewRun(wsClients', _isStreaming, _onStreamStopCallback)
    /\ NoHook
    /\ UNCHANGED << _variables, _numVariables, wsOnEvent, _onStreamStartCallback,
                    _onStreamStopCallback, _isStreaming, loopVars, millis,
                    millisAtInit, browser >>

\* WS_EVT_DISCONNECT of a connected client; ws.count() no longer counts it.
WsEvtDisconnect(clientId) ==
    /\ wsOnEvent
    /\ clientId \in wsClients
    /\ wsClients' = wsClients \ {clientId}
    /\ \E d \in {HandleDisconnect(Cardinality(wsClients'))} :
        /\ InvokeHook(d.hook)
        /\ _isStreaming' = d.streaming
        /\ _variables' = d.vars
        /\ wsOut' = d.out
        /\ hookCalls' = HookSeq(d.hook)
        /\ run' = [run EXCEPT !.stops = @ + Len(HookSeq(d.hook)), !.again = FALSE]
    /\ evt' = [type |-> "disconnect", id |-> clientId, frame |-> BinaryFrame]
    /\ UNCHANGED << _numVariables, wsOnEvent, _onStreamStartCallback,
                    _onStreamStopCallback, loopVars, millis, millisAtInit,
                    browser >>

\* WS_EVT_DISCONNECT once more for a client that is already gone: the same
\* handler runs, and ws.count() is what it was.
WsEvtDisconnectAgain(clientId) ==
    /\ wsOnEvent
    /\ clientId \notin wsClients
    /\ \E d \in {HandleDisconnect(Cardinality(wsClients))} :
        /\ InvokeHook(d.hook)
        /\ _isStreaming' = d.streaming
        /\ _variables' = d.vars
        /\ wsOut' = d.out
        /\ hookCalls' = HookSeq(d.hook)
        /\ run' = [run EXCEPT !.stops = @ + Len(HookSeq(d.hook)), !.again = TRUE]
    /\ evt' = [type |-> "disconnect", id |-> clientId, frame |-> BinaryFrame]
    /\ UNCHANGED << wsClients, _numVariables, wsOnEvent, _onStreamStartCallback,
                    _onStreamStopCallback, loopVars, millis, millisAtInit,
                    browser >>

\* WS_EVT_DATA: what the handler does on the device with a frame from a
\* connected client.
OnData(clientId, f) ==
    /\ wsOnEvent
    /\ clientId \in wsClients
    /\ \E d \in {HandleData(clientId, f)} :
        /\ InvokeHook(d.hook)
        /\ _isStreaming' = d.streaming
        /\ _variables' = d.vars
        /\ wsOut' = d.out
        /\ hookCalls' = HookSeq(d.hook)
        /\ run' = NewRun(wsClients, d.streaming, _onStreamStopCallback)
    /\ evt' = [type |-> "data", id |-> clientId, frame |-> f]
    /\ UNCHANGED << wsClients, _numVariables, wsOnEvent, _onStreamStartCallback,
                    _onStreamStopCallback, loopVars, millis, millisAtInit >>

\* WS_EVT_DATA: a frame from a connected client, whatever that client is.
WsEvtData(clientId, f) ==
    /\ OnData(clientId, f)
    /\ UNCHANGED browser

\* setStreamCallbacks(onStart, onStop); nullptr is FALSE.
setStreamCallbacks(onStart, onStop) ==
    /\ _onStreamStartCallback' = onStart
    /\ _onStreamStopCallback' = onStop
    /\ evt' = [type |-> "setup", id |-> 0, frame |-> BinaryFrame]
    /\ wsOut' = << >>
    /\ hookCalls' = << >>
    /\ run' = NewRun(wsClients, _isStreaming, onStop)
    /\ NoHook
    /\ UNCHANGED << _variables, _numVariables, wsOnEvent, _isStreaming, wsClients,
                    loopVars, millis, millisAtInit, browser >>

\* A faulty update: ws.text to one client in place of ws.textAll.
UpdateToOneClient(variableName) ==
    IF Cardinality(wsClients) = 0 THEN << >>
    ELSE IF _variables = nullptr \/ _numVariables <= 0 THEN << >>
    ELSE LET index == findVariableIndexInternal(_variables, _numVariables, variableName) IN
         IF index < 0 THEN << >>
         ELSE << ValueMsg(CHOOSE c \in wsClients : TRUE, VarAt(_variables, index)) >>

\* What broadcastVariableUpdate(variableName) sends: nothing without a
\* client, without a registry or for a name that is not found.
UpdateOf(variableName) ==
    IF Cardinality(wsClients) = 0 THEN << >>
    ELSE IF _variables = nullptr \/ _numVariables <= 0 THEN << >>
    ELSE LET index == findVariableIndexInternal(_variables, _numVariables, variableName) IN
         IF index < 0 THEN << >>
         ELSE << ValueUpdateMsg(wsClients, VarAt(_variables, index)) >>

\* broadcastVariableUpdate(variableName), called by the application.
broadcastVariableUpdate(variableName) ==
    /\ wsOut' = UpdateOf(variableName)
    /\ evt' = [type |-> "broadcast", id |-> 0, frame |-> GetFrame(variableName)]
    /\ hookCalls' = << >>
    /\ run' = NewRun(wsClients, _isStreaming, _onStreamStopCallback)
    /\ NoHook
    /\ UNCHANGED << libVars, loopVars, millis, millisAtInit, browser >>

\* A statement of loop(): the library state is not touched, no hook runs.
LoopStep ==
    /\ evt' = [type |-> "loop", id |-> 0, frame |-> BinaryFrame]
    /\ hookCalls' = << >>
    /\ UNCHANGED << libVars, isAppStreaming, streamStartTimeMs, millis,
                    millisAtInit, run, browser >>

\* loop(): if (isAppStreaming) { six analogRead calls; then
\* currentTimeMs = millis() - streamStartTimeMs.  The else branch only waits.
LoopCheck ==
    /\ loopPc = "check"
    /\ isAppStreaming
    /\ currentTimeMs' = U32Sub(millisRead, streamStartTimeMs)
    /\ sampleMillis' = millisRead
    /\ loopPc' = "write"
    /\ wsOut' = << >>
    /\ LoopStep
    /\ UNCHANGED << currentBufferIndex, idxReg, chunkIntact, chunkStamps, sampleFresh >>

\* loop(): sensorDataBuffer[currentBufferIndex] = the sample.
LoopWrite ==
    /\ loopPc = "write"
    /\ idxReg' = currentBufferIndex
    /\ sampleFresh' = TRUE
    /\ loopPc' = "incr"
    /\ wsOut' = << >>
    /\ LoopStep
    /\ UNCHANGED << currentBufferIndex, currentTimeMs, sampleMillis, chunkIntact,
                    chunkStamps >>

\* currentBufferIndex + 1.
IncrementOf(i) == i + 1

\* loop(): currentBufferIndex++, a load, an add and a store with no lock.
\* The value stored is one more than the index the sample was written at
\* (the load came before a handler ran) or than the index now in memory.
\* The slots the new index covers hold samples written since the latest
\* flush or start hook unless a start hook ran after the write.  The
\* timestamp of the sample counted is right if it is the sample's time minus
\* the reference time now in force.  currentTimeMs is dead from here on.
LoopIncr ==
    /\ loopPc = "incr"
    /\ \E loaded \in {idxReg, currentBufferIndex} :
        /\ currentBufferIndex' = IncrementOf(loaded)
        /\ idxReg' = IncrementOf(loaded)
    /\ chunkIntact' = (chunkIntact /\ sampleFresh)
    /\ chunkStamps' = (chunkStamps /\ currentTimeMs = U32Sub(sampleMillis, streamStartTimeMs))
    /\ sampleFresh' = FALSE
    /\ currentTimeMs' = U32(0)
    /\ sampleMillis' = U32(0)
    /\ loopPc' = "full"
    /\ wsOut' = << >>
    /\ LoopStep

\* A faulty test for full: one sample late.
FullOneLate(i) == i > SAMPLES_PER_CHUNK

\* currentBufferIndex >= SAMPLES_PER_CHUNK.
BufferFull(i) == i >= SAMPLES_PER_CHUNK

\* A faulty broadcast: ws.binaryAll is called whatever the arguments and
\* the number of clients.
BroadcastUnguarded(data, len, intact) ==
    << BinaryMsg(wsClients, len, intact) >>

\* broadcastBinaryData(data, len): to all clients, if there is one, data is
\* not nullptr (`data` is TRUE) and len is positive.
broadcastBinaryData(data, len, intact) ==
    IF Cardinality(wsClients) > 0 /\ data /\ len > 0
    THEN << BinaryMsg(wsClients, len, intact) >>
    ELSE << >>

\* loop(): if (currentBufferIndex >= SAMPLES_PER_CHUNK), tested on the value
\* just stored or on the one now in memory; when full,
\* broadcastBinaryData((uint8_t*)sensorDataBuffer, CHUNK_BUFFER_SIZE_BYTES).
\* The buffer sent is intact when all its slots are below the index in
\* memory and hold samples written since the latest flush or start hook.
LoopFull ==
    /\ loopPc = "full"
    /\ \E tested \in {idxReg, currentBufferIndex} :
        IF BufferFull(tested)
        THEN /\ wsOut' = broadcastBinaryData(TRUE, CHUNK_BUFFER_SIZE_BYTES,
                             chunkIntact /\ currentBufferIndex >= SAMPLES_PER_CHUNK)
             /\ loopPc' = "reset"
        ELSE /\ wsOut' = << >>
             /\ loopPc' = "check"
    /\ idxReg' = 0
    /\ LoopStep
    /\ UNCHANGED << currentBufferIndex, currentTimeMs, sampleMillis, chunkIntact,
                    chunkStamps, sampleFresh >>

\* loop(): currentBufferIndex = 0 after the broadcast, then the delay.
LoopReset ==
    /\ loopPc = "reset"
    /\ currentBufferIndex' = 0
    /\ chunkIntact' = TRUE
    /\ chunkStamps' = TRUE
    /\ loopPc' = "check"
    /\ wsOut' = << >>
    /\ LoopStep
    /\ UNCHANGED << idxReg, currentTimeMs, sampleMillis, sampleFresh >>

\* A millisecond passes: millis() returns one more from now on.
MillisTick ==
    /\ millis < MaxMillis
    /\ millis' = millis + 1
    /\ evt' = [type |-> "tick", id |-> 0, frame |-> BinaryFrame]
    /\ wsOut' = << >>
    /\ hookCalls' = << >>
    /\ NoHook
    /\ UNCHANGED << libVars, loopVars, millisAtInit, run, browser >>

\* setup(): setStreamCallbacks(application_onStreamStart,
\* application_onStreamStop), once, after the server has been started.
Setup ==
    /\ ~_onStreamStartCallback
    /\ setStreamCallbacks(TRUE, TRUE)

\* -------------------------------------------------------------- web client

\* What a page may have on the way to and from the server.
MaxInFlight == 1

\* A connection id no page of the web client uses: the page is not loaded,
\* or its connection has been closed (ws = null).  A page holds its
\* streaming flag (appState.js), the state of its WebSocket, and what is on
\* the way to the server (up) and from it (down).
NoPage ==
    [isClientStreaming |-> FALSE, readyState |-> "CLOSED",
     up |-> << >>, down |-> << >>]

UpperCase == "ABCDEFGHIJKLMNOPQRSTUVWXYZ"
LowerCase == "abcdefghijklmnopqrstuvwxyz"

\* One character of String.prototype.toLowerCase().
Lower(ch) ==
    IF \E i \in 1..Len(UpperCase) : SubSeq(UpperCase, i, i) = ch
    THEN LET i == CHOOSE j \in 1..Len(UpperCase) : SubSeq(UpperCase, j, j) = ch
         IN  SubSeq(LowerCase, i, i)
    ELSE ch

\* String.prototype.toLowerCase().
RECURSIVE toLowerCase(_)
toLowerCase(str) ==
    IF Len(str) = 0 THEN ""
    ELSE Lower(SubSeq(str, 1, 1)) \o toLowerCase(SubSeq(str, 2, Len(str)))

\* String.prototype.includes(): `needle` occurs somewhere in `text`.
includes(text, needle) ==
    \E i \in 1..(Len(text) - Len(needle) + 1) :
        SubSeq(text, i, i + Len(needle) - 1) = needle

\* wsService.setOnServerStatus(...): the page's streaming flag after the
\* handler has looked at the text of a status message.
onServerStatusHandler(isStreaming, message) ==
    LET msgText == toLowerCase(message.message) IN
    IF includes(msgText, "stream iniciado") \/ includes(msgText, "stream já estava ativo")
    THEN TRUE
    ELSE IF includes(msgText, "stream parado") \/ includes(msgText, "stream já estava parado")
         THEN IF isStreaming THEN FALSE ELSE isStreaming
         ELSE isStreaming

\* routeIncomingMessage(message): the handler a parsed text message goes to.
\* An absent key is undefined, which is falsy; an array is truthy.
routeIncomingMessage(message) ==
    IF message.status = "var_config_list" /\ message.kind = "var_config_list"
    THEN "onConfigList"
    ELSE IF message.status # NullStr /\ message.status # ""
         THEN "onServerStatus"
         ELSE IF message.variable # NullStr /\ message.value # JAbsent
              THEN "onVariableUpdate"
              ELSE "unhandled"

\* sendPayload(payload): the frame goes out if the connection is open.
sendPayload(page, f) ==
    IF page.readyState = "OPEN" THEN [page EXCEPT !.up = Append(@, f)] ELSE page

\* A handler of the page with connection id c has run: the device is not
\* touched.
BrowserStep(c, type) ==
    /\ evt' = [type |-> type, id |-> c, frame |-> BinaryFrame]
    /\ wsOut' = << >>
    /\ hookCalls' = << >>
    /\ NoHook
    /\ UNCHANGED << libVars, loopVars, millis, millisAtInit, run >>

\* initializeApp(): the page is loaded; the buttons are disabled and
\* wsService.connect() creates the WebSocket.
initializeApp(c) ==
    /\ browser[c].readyState = "CLOSED"
    /\ browser' = [browser EXCEPT ![c] =
                      [isClientStreaming |-> FALSE, readyState |-> "CONNECTING",
                       up |-> << >>, down |-> << >>]]
    /\ BrowserStep(c, "load")

\* The device accepts the connection a page is opening.
Handshake(c) ==
    /\ browser[c].readyState = "CONNECTING"
    /\ WsEvtConnect(c)

\* ws.onopen: the configuration is requested.
onopen(c) ==
    /\ browser[c].readyState = "CONNECTING"
    /\ c \in wsClients
    /\ browser' = [browser EXCEPT ![c] =
                      sendPayload([@ EXCEPT !.readyState = "OPEN"],
                                  ActionFrame("get_all_vars_config"))]
    /\ BrowserStep(c, "open")

\* The Start button (enabled when connected and the flag is false):
\* sendStartStreamRequest() sends the command and sets the flag.
sendStartStreamRequest(c) ==
    /\ browser[c].readyState = "OPEN"
    /\ ~browser[c].isClientStreaming
    /\ Len(browser[c].up) + Len(browser[c].down) < MaxInFlight
    /\ browser' = [browser EXCEPT ![c] =
                      [sendPayload(@, ActionFrame("start_stream"))
                          EXCEPT !.isClientStreaming = TRUE]]
    /\ BrowserStep(c, "start")

\* The Stop button (enabled when connected and the flag is true):
\* sendStopStreamRequest() sends the command and clears the flag.
sendStopStreamRequest(c) ==
    /\ browser[c].readyState = "OPEN"
    /\ browser[c].isClientStreaming
    /\ Len(browser[c].up) + Len(browser[c].down) < MaxInFlight
    /\ browser' = [browser EXCEPT ![c] =
                      [sendPayload(@, ActionFrame("stop_stream"))
                          EXCEPT !.isClientStreaming = FALSE]]
    /\ BrowserStep(c, "stop")

\* The next frame of a page reaches the device: WS_EVT_DATA, and what the
\* handler sends is on the way to the pages it is addressed to.
Deliver(c) ==
    /\ browser[c].up # << >>
    /\ OnData(c, Head(browser[c].up))
    /\ browser' = [b \in ClientIds |->
                      [browser[b] EXCEPT
                          !.up = IF b = c THEN Tail(@) ELSE @,
                          !.down = @ \o SelectSeq(wsOut', LAMBDA m : b \in m.to)]]

\* ws.onmessage: binary data goes to the chunk counter, a text message is
\* parsed and routed; only the status handler touches the streaming flag.
onmessage(c) ==
    /\ browser[c].readyState = "OPEN"
    /\ browser[c].down # << >>
    /\ LET message == Head(browser[c].down) IN
       browser' = [browser EXCEPT ![c] =
                      [@ EXCEPT
                          !.down = Tail(@),
                          !.isClientStreaming =
                              IF /\ message.kind # "binary"
                                 /\ routeIncomingMessage(message) = "onServerStatus"
                              THEN onServerStatusHandler(@, message)
                              ELSE @]]
    /\ BrowserStep(c, "message")

\* ws.onerror on a connection the device no longer has: the flag is cleared.
onerror(c) ==
    /\ browser[c].readyState # "CLOSED"
    /\ c \notin wsClients
    /\ browser' = [browser EXCEPT ![c].isClientStreaming = FALSE]
    /\ BrowserStep(c, "error")

\* ws.onclose on a connection the device no longer has: ws = null, the flag
\* is cleared, and what was on the way is lost.
onclose(c) ==
    /\ browser[c].readyState # "CLOSED"
    /\ c \notin wsClients
    /\ browser' = [browser EXCEPT ![c] = NoPage]
    /\ BrowserStep(c, "close")

\* ----------------------------------------------------------- specifications

\* Frames the clients of the sampling application send.
AppFrames ==
    { ActionFrame("start_stream"),
      ActionFrame("stop_stream"),
      ActionFrame("bogus"),
      GetFrame("led_intensity"),
      SetFrame("led_intensity", JInt(300)),
      BinaryFrame }

\* What does not depend on the registry, with millis() at `clock`: the
\* library's statics and main.cpp's globals as initialised.
InitGlobals(clock) ==
    /\ _onStreamStartCallback = FALSE
    /\ _onStreamStopCallback = FALSE
    /\ _isStreaming = FALSE
    /\ wsClients = {}
    /\ isAppStreaming = FALSE
    /\ currentBufferIndex = 0
    /\ loopPc = "check"
    /\ idxReg = 0
    /\ currentTimeMs = U32(0)
    /\ streamStartTimeMs = U32(0)
    /\ millis = 0
    /\ millisAtInit = clock
    /\ evt = [type |-> "init", id |-> 0, frame |-> BinaryFrame]
    /\ wsOut = << >>
    /\ hookCalls = << >>
    /\ chunkIntact = TRUE
    /\ sampleFresh = FALSE
    /\ sampleMillis = U32(0)
    /\ chunkStamps = TRUE
    /\ run = NewRun({}, FALSE, FALSE)
    /\ browser = [c \in ClientIds |-> NoPage]

\* A faulty initialization: the arguments are not validated.
InitWithoutValidation(appVariables, appNumVariables, up) ==
    [variables    |-> appVariables,
     numVariables |-> appNumVariables,
     onEvent      |-> up]

\* initWiFiWebSocketServer(ssid, password, ip, appVariables, appNumVariables):
\* the two arguments are stored as they come, then validated.  The handler is
\* attached when the count is not negative, the array is present if the count
\* is positive, and LittleFS and the access point came up (`up`).
initWiFiWebSocketServer(appVariables, appNumVariables, up) ==
    [variables    |-> appVariables,
     numVariables |-> appNumVariables,
     onEvent      |-> /\ ~(appNumVariables < 0)
                      /\ ~(appNumVariables > 0 /\ appVariables = nullptr)
                      /\ up]

\* The state once initWiFiWebSocketServer has returned, with millis() at
\* `clock`: no hook registered, not streaming, no client; main.cpp's
\* globals as initialised.
InitServer(appVariables, appNumVariables, up, clock) ==
    /\ \E s \in {initWiFiWebSocketServer(appVariables, appNumVariables, up)} :
        /\ _variables = s.variables
        /\ _numVariables = s.numVariables
        /\ wsOnEvent = s.onEvent
    /\ InitGlobals(clock)

\* The state once initWiFiWebSocketServer has attached the handler to a
\* registry `vs` of Len(vs) variables.
InitAt(vs, clock) == InitServer(vs, Len(vs), TRUE, clock)


\* The same shortly after power-on: millis() is still small, taken as 0.
InitWith(vs) == InitAt(vs, U32(0))

\* The sampling application: main.cpp on top of the library.
Init == InitWith(configurableVariables)

Next ==
    \/ \E c \in ClientIds : WsEvtConnect(c)
    \/ \E c \in ClientIds : WsEvtDisconnect(c)
    \/ \E c \in ClientIds, f \in AppFrames : WsEvtData(c, f)
    \/ Setup
    \/ LoopCheck
    \/ LoopWrite
    \/ LoopIncr
    \/ LoopFull
    \/ LoopReset
    \/ MillisTick

Spec == Init /\ [][Next]_vars

\* The sampling application 49.7 days after power-on, when millis() is about
\* to wrap from 2^32 - 1 to 0.
InitWrap == InitAt(configurableVariables, U32Max)

SpecWrap == InitWrap /\ [][Next]_vars

\* The library's streaming controller under any application: the hooks are
\* registered, replaced and removed at any time; loop() does not run.
StreamFrames ==
    { ActionFrame("start_stream"),
      ActionFrame("stop_stream"),
      ActionFrame("get_all_vars_config"),
      ActionFrame("bogus"),
      ActionFrame("START_STREAM"),
      ActionFrame(NullStr),
      GetFrame("led_intensity"),
      SetFrame("led_intensity", JInt(0)),
      SetFrame("led_intensity", JInt(300)),
      InvalidJsonFrame,
      FragmentFrame,
      BinaryFrame }

InitStream == InitWith(configurableVariables)

NextStream ==
    \/ \E c \in ClientIds : WsEvtConnect(c)
    \/ \E c \in ClientIds : WsEvtDisconnect(c)
    \/ \E c \in ClientIds : WsEvtDisconnectAgain(c)
    \/ \E c \in ClientIds, f \in StreamFrames : WsEvtData(c, f)
    \/ \E onStart \in BOOLEAN, onStop \in BOOLEAN : setStreamCallbacks(onStart, onStop)

SpecStream == InitStream /\ [][NextStream]_vars

\* The library's variable registry: get and set on either array.  The
\* candidates sit on and around the limits, on and next to whole numbers
\* (one grid unit is 2^-18), and in every JSON type.
SetInputs ==
    { << "led_intensity", JInt(300) >>,
      << "led_intensity", JInt(0) >>,
      << "led_intensity", JInt(255) >>,
      << "led_intensity", JInt(256) >>,
      << "led_intensity", JInt(-1) >>,
      << "led_intensity", JFloat(125 * Den) >>,
      << "led_intensity", JFloat(125 * Den + Den \div 2) >>,
      << "led_intensity", JFloat(128 * Den + 1) >>,
      << "led_intensity", JStr("125") >>,
      << "led_intensity", JNull >>,
      << "led_intensity", JAbsent >>,
      << "device_label", JStr("lab") >>,
      << "device_label", JStr(LongLabel) >>,
      << "device_label", JInt(5) >>,
      << "gain", JFloat(128 * Den) >>,
      << "gain", JFloat(128 * Den + 1) >>,
      << "gain", JFloat(128 * Den + 4) >>,
      << "gain", JInt(0) >>,
      << "gain", JFloat(-1) >>,
      << "gain", JBool >>,
      << "gain", JStr("1.5") >>,
      << "offset", JFloat(1000 * Den + 1) >>,
      << "count", JInt(-1000) >>,
      << "count", JFloat(7 * Den + Den \div 2) >>,
      << "label", JStr("b") >>,
      << "label", JFloat(Den) >>,
      << "nope", JInt(1) >>,
      << "nope", JAbsent >>,
      << NullStr, JInt(1) >>,
      << NullStr, JAbsent >> }

RegistryFrames ==
    { SetFrame(p[1], p[2]) : p \in SetInputs }
    \cup { GetFrame(p[1]) : p \in SetInputs }
    \cup { ActionFrame("get_all_vars_config") }

InitRegistry ==
    \E vs \in {configurableVariables, libraryVariables} : InitWith(vs)

NextRegistry ==
    \/ \E c \in ClientIds : WsEvtConnect(c)
    \/ \E c \in ClientIds : WsEvtDisconnect(c)
    \/ \E c \in ClientIds, f \in RegistryFrames : WsEvtData(c, f)

SpecRegistry == InitRegistry /\ [][NextRegistry]_vars

\* The pages of the web client and the library's streaming controller under
\* any application: pages are loaded, opened, used and closed; the hooks
\* are registered, replaced and removed at any time.
InitWeb == InitWith(configurableVariables)

NextWeb ==
    \/ \E c \in ClientIds : initializeApp(c)
    \/ \E c \in ClientIds : Handshake(c)
    \/ \E c \in ClientIds : onopen(c)
    \/ \E c \in ClientIds : sendStartStreamRequest(c)
    \/ \E c \in ClientIds : sendStopStreamRequest(c)
    \/ \E c \in ClientIds : Deliver(c)
    \/ \E c \in ClientIds : onmessage(c)
    \/ \E c \in ClientIds : WsEvtDisconnect(c)
    \/ \E c \in ClientIds : onerror(c)
    \/ \E c \in ClientIds : onclose(c)
    \/ \E onStart \in BOOLEAN, onStop \in BOOLEAN : setStreamCallbacks(onStart, onStop)

SpecWeb == InitWeb /\ [][NextWeb]_vars

\* The library under any initialization: any array or none, any count up
\* to the array's length, LittleFS and the access point up or not; then the
\* application registers its hooks and broadcasts, and clients (if the
\* handler is attached) connect, get, set and list.
InitFrames ==
    { GetFrame("led_intensity"),
      GetFrame("motor_enable"),
      SetFrame("led_intensity", JInt(0)),
      SetFrame("motor_enable", JInt(1)),
      SetFrame("gain", JFloat(2 * Den)),
      ActionFrame("get_all_vars_config") }

UpdateNames == {"led_intensity", "motor_enable", "gain", "nope", NullStr}

InitBoot ==
    \E appVariables \in {nullptr, configurableVariables, libraryVariables},
       appNumVariables \in {-1, 0, 2, 4},
       up \in BOOLEAN :
        /\ appVariables # nullptr => appNumVariables <= Len(appVariables)
        /\ InitServer(appVariables, appNumVariables, up, U32(0))

NextInit ==
    \/ \E c \in ClientIds : WsEvtConnect(c)
    \/ \E c \in ClientIds : WsEvtDisconnect(c)
    \/ \E c \in ClientIds, f \in InitFrames : WsEvtData(c, f)
    \/ Setup
    \/ \E name \in UpdateNames : broadcastVariableUpdate(name)

SpecInit == InitBoot /\ [][NextInit]_vars

\* ------------------------------------------------------------- properties

\* The step handles a start_stream / stop_stream frame.
StartStep == evt'.type = "data" /\ evt'.frame = ActionFrame("start_stream")

StopStep == evt'.type = "data" /\ evt'.frame = ActionFrame("stop_stream")

\* The step handles a disconnect.
DisconnectStep == evt'.type = "disconnect" /\ wsClients' # wsClients

\* C1: with both hooks registered, a start_stream handled in state Stopped
\* moves the state to Streaming, is answered with status ok and invokes the
\* start hook; a start_stream handled in state Streaming (the second of two
\* in a row) is answered with status info "already active", changes neither
\* the streaming state nor the buffer index, and invokes no hook.
C1_StartTwice ==
    [][ (StartStep /\ _onStreamStartCallback /\ _onStreamStopCallback)
        => IF ~_isStreaming
           THEN /\ _isStreaming'
                /\ wsOut' = << StatusMsg(evt'.id, "ok", "Stream started.") >>
                /\ hookCalls' = << "start" >>
           ELSE /\ wsOut' = << StatusMsg(evt'.id, "info", "Stream was already active.") >>
                /\ UNCHANGED << _isStreaming, isAppStreaming, currentBufferIndex >>
                /\ hookCalls' = << >> ]_vars

\* A start_stream was answered "already active" while samples were buffered.
C1_Witness ==
    /\ evt.type = "data"
    /\ evt.frame = ActionFrame("start_stream")
    /\ wsOut = << StatusMsg(evt.id, "info", "Stream was already active.") >>
    /\ _isStreaming
    /\ currentBufferIndex > 0

\* C11: every message sent while a client's frame is handled goes to that
\* client and to no other; connect, disconnect and hook registration send
\* nothing.
C11_ResponsesToSenderOnly ==
    /\ evt.type = "data" => \A i \in 1..Len(wsOut) : wsOut[i].to = {evt.id}
    /\ evt.type \in {"connect", "disconnect", "setup"} => wsOut = << >>

\* A set by one of MaxClients connected clients was echoed to it alone.
C11_Witness ==
    /\ evt.type = "data"
    /\ evt.frame = SetFrame("led_intensity", JInt(0))
    /\ wsClients = ClientIds
    /\ wsOut = << ValueMsg(evt.id, VarAt(_variables, 0)) >>
    /\ wsOut[1].to = {evt.id}
    /\ VarAt(_variables, 0).intValue = 0

\* C2: in a run of disconnects that starts with N >= 1 clients connected,
\* the stream on and a stop hook registered, the stop hook has been invoked
\* by no disconnect while a client is left and by exactly one once all N
\* clients are gone.
C2_StopHookOnce ==
    (evt.type = "disconnect" /\ run.streaming /\ run.n >= 1)
        => IF wsClients = {} THEN run.stops = 1 ELSE run.stops = 0

\* All of MaxClients clients have disconnected from a running stream.
C2_Witness ==
    /\ evt.type = "disconnect"
    /\ run.streaming
    /\ run.n = MaxClients
    /\ wsClients = {}
    /\ run.stops = 1

\* C3 (as stated): whenever a disconnect leaves no client connected while
\* the state is Streaming, the state is Stopped once it has been handled.
C3_AutoStopOnEmpty ==
    [][ (DisconnectStep /\ wsClients' = {} /\ _isStreaming) => ~_isStreaming' ]_vars

\* C3 (amended): whenever a disconnect leaves no client connected while the
\* state is Streaming and a stop hook is registered, the stop hook is invoked
\* and the state is Stopped once it has been handled.
C3_AutoStopWithStopHook ==
    [][ (DisconnectStep /\ wsClients' = {} /\ _isStreaming /\ _onStreamStopCallback)
        => (~_isStreaming' /\ hookCalls' = << "stop" >>) ]_vars

\* The last client's disconnect has stopped the stream.
C3_Witness ==
    /\ evt.type = "disconnect"
    /\ wsClients = {}
    /\ hookCalls = << "stop" >>
    /\ ~_isStreaming
    /\ ~isAppStreaming

\* C10: with neither hook registered, start_stream and stop_stream are
\* answered with an error status "not configured", change the streaming
\* state in neither state, and invoke no hook.
C10_NoHooksNotConfigured ==
    [][ ((StartStep \/ StopStep) /\ ~_onStreamStartCallback /\ ~_onStreamStopCallback)
        => /\ wsOut' = << StatusMsg(evt'.id, "error",
                            "Streaming feature not implemented/configured.") >>
           /\ _isStreaming' = _isStreaming
           /\ hookCalls' = << >> ]_vars

\* A stop_stream was answered "not configured" in state Streaming.
C10_Witness ==
    /\ evt.type = "data"
    /\ evt.frame = ActionFrame("stop_stream")
    /\ wsOut = << StatusMsg(evt.id, "error",
                    "Streaming feature not implemented/configured.") >>
    /\ ~_onStreamStartCallback
    /\ ~_onStreamStopCallback
    /\ _isStreaming

\* The step handles a get of a variable the registry holds.
GetStep ==
    /\ evt'.type = "data"
    /\ evt'.frame.action = "get"
    /\ findVariableIndexInternal(_variables, _numVariables, evt'.frame.variable) # -1

\* The step handles a set of a variable the registry holds, with a candidate
\* that is present and not null.
SetStep ==
    /\ evt'.type = "data"
    /\ evt'.frame.action = "set"
    /\ findVariableIndexInternal(_variables, _numVariables, evt'.frame.variable) # -1
    /\ ~IsNull(evt'.frame.value)

\* The variable a get or set step addresses, before and after the step, and
\* the candidate of a set step.
Target == VarAt(_variables, findVariableIndexInternal(_variables, _numVariables, evt'.frame.variable))

TargetAfter == VarAt(_variables', findVariableIndexInternal(_variables, _numVariables, evt'.frame.variable))

Candidate == evt'.frame.value

\* The step answered with the variable's value / with the set's error status.
Echoed == Len(wsOut') = 1 /\ wsOut'[1].kind = "value"

Refused ==
    wsOut' = << StatusMsg(evt'.id, "error",
                  "Failed to set value (invalid type or out of limits).") >>

\* A get is answered with the stored value and changes nothing.
GetReturnsStored ==
    GetStep => /\ Echoed
               /\ wsOut'[1].to = {evt'.id}
               /\ wsOut'[1].variable = Target.name
               /\ wsOut'[1].value = ValueOf(Target)
               /\ _variables' = _variables

\* Two JSON values are the same value: equal numbers, or equal strings.
SameValue(a, b) ==
    \/ a.k \in {"int", "float"} /\ b.k \in {"int", "float"} /\ a.n = b.n
    \/ a.k = "str" /\ b.k = "str" /\ a.s = b.s

\* The candidate in the storage type of the variable: an int by truncation,
\* a float by rounding to the nearest 32-bit float, a string as it is.
Converted(var, v) ==
    CASE var.type = "TYPE_INT"   -> JInt(Sgn(v.n) * (Abs(v.n) \div Den))
      [] var.type = "TYPE_FLOAT" -> JFloat(ToFloat32(v.n))
      [] OTHER                   -> JStr(v.s)

\* C4 (as stated, for the Float and String variables, whose type test
\* accepts every number and every string): the echo of a successful set
\* carries exactly the value that was set, the variable then holds it, and
\* a get returns the value the variable holds.
C4_GetAfterSetExact ==
    [][ /\ (SetStep /\ Echoed /\ Target.type # "TYPE_INT") =>
              /\ SameValue(wsOut'[1].value, Candidate)
              /\ SameValue(ValueOf(TargetAfter), Candidate)
        /\ GetReturnsStored ]_vars

\* C4 (amended): the echo of a successful set carries the candidate
\* converted to the storage type of the variable (truncated to int, rounded
\* to the nearest 32-bit float, or the string), the variable then holds that
\* value, and a get returns the value the variable holds.
C4_GetAfterSetConverted ==
    [][ /\ (SetStep /\ Echoed) =>
              /\ wsOut'[1].value = Converted(Target, Candidate)
              /\ ValueOf(TargetAfter) = Converted(Target, Candidate)
              /\ wsOut'[1].variable = Target.name
              /\ wsOut'[1].to = {evt'.id}
        /\ GetReturnsStored ]_vars

\* A get of gain returns 128 after the set of 128 + 2^-18 succeeded.
C4_Witness ==
    /\ evt.type = "data"
    /\ evt.frame = GetFrame("gain")
    /\ Len(_variables) = 5
    /\ wsOut = << ValueMsg(evt.id, VarAt(_variables, 0)) >>
    /\ VarAt(_variables, 0).floatValue = 128 * Den

\* A candidate no reading of the validation rules lets through: not of the
\* variable's type (no number for a numeric variable, no string for a
\* string variable), or a number whose conversion to the storage type lies
\* outside the limits.
Invalid(var, v) ==
    IF var.type = "TYPE_STRING" THEN v.k # "str"
    ELSE \/ v.k \notin {"int", "float"}
         \/ /\ var.hasLimits
            /\ \/ Converted(var, v).n < var.minVal
               \/ Converted(var, v).n > var.maxVal

\* C5: a set is answered with the value or with an error status; one that
\* fails validation is answered with the error status; one answered with
\* the error status leaves every stored value as it was; and a get returns
\* the value the variable holds, so the one it held before a failed set.
C5_FailedSetKeepsValue ==
    [][ /\ SetStep =>
              /\ Echoed \/ Refused
              /\ Invalid(Target, Candidate) => Refused
              /\ Refused => _variables' = _variables
        /\ GetReturnsStored ]_vars

\* 300 was refused for led_intensity, which still holds 128.
C5_Witness ==
    /\ evt.type = "data"
    /\ evt.frame = SetFrame("led_intensity", JInt(300))
    /\ wsOut = << StatusMsg(evt.id, "error",
                    "Failed to set value (invalid type or out of limits).") >>
    /\ VarAt(_variables, 0).name = "led_intensity"
    /\ VarAt(_variables, 0).intValue = 128

\* An integer, or a floating value with zero fractional part.
WholeNumber(v) ==
    \/ v.k = "int"
    \/ v.k = "float" /\ v.n % Den = 0

\* C6: for an Integer variable a candidate that is neither an integer nor a
\* floating value with zero fractional part is refused and the value stays;
\* one that is, and lies within the limits, is accepted and the integer
\* equal to it is stored.
C6_IntegerTypeAcceptance ==
    [][ (SetStep /\ Target.type = "TYPE_INT") =>
            /\ ~WholeNumber(Candidate) => (Refused /\ _variables' = _variables)
            /\ ( /\ WholeNumber(Candidate)
                 /\ Target.hasLimits => ( /\ Target.minVal <= Candidate.n
                                          /\ Candidate.n <= Target.maxVal ) )
               => (Echoed /\ IntToDouble(TargetAfter.intValue) = Candidate.n) ]_vars

\* The limits test on a number x (1/Den units), both ends inclusive.
InRange(var, x) == var.hasLimits => (var.minVal <= x /\ x <= var.maxVal)

\* The candidate passes the type test of the variable's case.
TypeValid(var, v) ==
    IF var.type = "TYPE_INT" THEN IntCompatible(v) ELSE FloatCompatible(v)

\* C7 (as stated): for a numeric variable a type-valid candidate v is
\* accepted exactly when hasLimits is false or min <= v <= max.
C7_LimitsOnCandidate ==
    [][ (SetStep /\ Target.type \in {"TYPE_INT", "TYPE_FLOAT"}
                 /\ TypeValid(Target, Candidate))
        => /\ Echoed <=> InRange(Target, Candidate.n)
           /\ Echoed \/ Refused ]_vars

\* C7 (amended): for a numeric variable a type-valid candidate v is accepted
\* exactly when hasLimits is false or min <= c <= max, both ends inclusive,
\* c being v converted to the storage type of the variable.
C7_LimitsOnConverted ==
    [][ (SetStep /\ Target.type \in {"TYPE_INT", "TYPE_FLOAT"}
                 /\ TypeValid(Target, Candidate))
        => /\ Echoed <=> InRange(Target, Converted(Target, Candidate).n)
           /\ Echoed \/ Refused ]_vars

\* led_intensity, limited to [0, 255], was set to 255.
C7_Witness ==
    /\ evt.type = "data"
    /\ evt.frame = SetFrame("led_intensity", JInt(255))
    /\ wsOut = << ValueMsg(evt.id, VarAt(_variables, 0)) >>
    /\ VarAt(_variables, 0).hasLimits
    /\ VarAt(_variables, 0).intValue = 255

\* The step of loop() that tests the buffer for being full.
FullStep == loopPc = "full" /\ loopPc' # "full"

\* The messages just sent hold a binary frame.
ChunkSent == \E i \in 1..Len(wsOut) : wsOut[i].kind = "binary"

\* C8: a chunk is broadcast only when K samples have been appended since
\* the latest flush or Start, it has K * 16 = 400 bytes and goes to every
\* client; with the index at K and a client connected the test for full
\* broadcasts exactly one chunk; and the index is 0 once loop() has reset it
\* after the emission.
C8_ChunkExactlyAtK ==
    [][ /\ \A i \in 1..Len(wsOut') :
              wsOut'[i].kind = "binary" =>
                  /\ wsOut'[i].intact
                  /\ wsOut'[i].len = SAMPLES_PER_CHUNK * PACKET_SIZE_BYTES
                  /\ wsOut'[i].to = wsClients
        /\ (FullStep /\ currentBufferIndex >= SAMPLES_PER_CHUNK /\ wsClients # {})
              => (Len(wsOut') = 1 /\ wsOut'[1].kind = "binary")
        /\ (FullStep /\ currentBufferIndex < SAMPLES_PER_CHUNK /\ idxReg = currentBufferIndex)
              => wsOut' = << >>
        /\ (loopPc = "reset" /\ loopPc' = "check") => currentBufferIndex' = 0 ]_vars

\* C9: handling a stop_stream or a disconnect emits no chunk, and every
\* chunk emitted holds only samples appended after the latest Start, so
\* none that was buffered when the stream was stopped.
C9_NoStaleSamples ==
    /\ evt.type \in {"data", "disconnect"} => ~ChunkSent
    /\ \A i \in 1..Len(wsOut) : wsOut[i].kind = "binary" => wsOut[i].intact

\* C12: the buffer's mutations are serialized: the start hook's reset of the
\* index and of the reference time takes effect only between two iterations
\* of loop(), never after an iteration has taken its timestamp and before
\* it has finished (write, increment, test for full, broadcast, reset).
C12_StartBetweenIterations ==
    [][ (StartStep /\ hookCalls' = << "start" >>) => loopPc = "check" ]_vars

\* C13: once a text frame from a client has been handled, exactly one
\* response has been sent, to its sender; no text frame goes unanswered.
C13_OneResponsePerTextFrame ==
    (evt.type = "data" /\ evt.frame.opcode = "text")
        => /\ Len(wsOut) = 1
           /\ wsOut[1].kind \in {"status", "value", "var_config_list"}
           /\ wsOut[1].to = {evt.id}

\* The actions the router knows.
KnownActions == {"get", "set", "start_stream", "stop_stream", "get_all_vars_config"}

\* The step handles an envelope (a whole text frame that parses as JSON)
\* whose action is none of the known ones, or missing.
UnknownActionStep ==
    /\ evt'.type = "data"
    /\ evt'.frame.opcode = "text" /\ evt'.frame.whole /\ evt'.frame.json
    /\ evt'.frame.action \notin KnownActions

\* C14: an envelope whose action is none of get, set, start_stream,
\* stop_stream, get_all_vars_config is answered with one error status to its
\* sender; no variable and not the streaming state changes, and no hook is
\* invoked.
C14_UnknownActionError ==
    [][ UnknownActionStep =>
            /\ Len(wsOut') = 1
            /\ wsOut'[1].kind = "status" /\ wsOut'[1].status = "error"
            /\ wsOut'[1].to = {evt'.id}
            /\ hookCalls' = << >>
            /\ UNCHANGED << _variables, _isStreaming, isAppStreaming,
                            currentBufferIndex, wsClients >> ]_vars

\* "START_STREAM" has been refused as unknown while a start hook was
\* registered and the stream was stopped.
C14_Witness ==
    /\ evt.type = "data"
    /\ evt.frame = ActionFrame("START_STREAM")
    /\ _onStreamStartCallback /\ ~_isStreaming
    /\ wsOut = << StatusMsg(evt.id, "error", "Unknown 'action' command.") >>
    /\ hookCalls = << >>

\* The step handles a get_all_vars_config frame.
ConfigListStep == evt'.type = "data" /\ evt'.frame = ActionFrame("get_all_vars_config")

\* Entry e of the list carries the name, the type, the current value and
\* the hasLimits flag of variable var.
EntryCarries(e, var) ==
    /\ {"name", "type", "value", "hasLimits"} \subseteq e.keys
    /\ e.name = var.name
    /\ e.type = varTypeToCharString(var.type)
    /\ e.value = ValueOf(var)
    /\ e.hasLimits = var.hasLimits

\* C15: get_all_vars_config on a registry of n > 0 variables returns a list
\* of exactly n entries in registry order, entry i carrying the name, type,
\* current value and hasLimits flag of variable i; it changes no state.
C15_ConfigListComplete ==
    [][ (ConfigListStep /\ Len(_variables) > 0) =>
            /\ Len(wsOut') = 1
            /\ wsOut'[1].kind = "var_config_list"
            /\ wsOut'[1].to = {evt'.id}
            /\ Len(wsOut'[1].variables) = Len(_variables)
            /\ \A i \in 1..Len(_variables) :
                   EntryCarries(wsOut'[1].variables[i], _variables[i])
            /\ hookCalls' = << >>
            /\ UNCHANGED << _variables, _isStreaming, wsClients >> ]_vars

\* C16: a start_stream handled in state Stopped with a start hook registered
\* leaves the buffer index 0, the reference start time at what millis()
\* returns at that moment, the start hook invoked exactly once, the state
\* Streaming, and one ok status sent to the requester.
C16_StartTransition ==
    [][ (StartStep /\ ~_isStreaming /\ _onStreamStartCallback) =>
            /\ currentBufferIndex' = 0
            /\ streamStartTimeMs' = millisRead
            /\ hookCalls' = << "start" >>
            /\ _isStreaming' /\ isAppStreaming'
            /\ wsOut' = << StatusMsg(evt'.id, "ok", "Stream started.") >> ]_vars

\* A second stream has been started, later than the first and with samples
\* of the first still counted in the buffer: the index is 0 again and the
\* reference time is the later one.
C16_Witness ==
    /\ evt.type = "data" /\ evt.frame = ActionFrame("start_stream")
    /\ hookCalls = << "start" >>
    /\ loopPc = "full" /\ idxReg > 0
    /\ currentBufferIndex = 0
    /\ millis = MaxMillis /\ streamStartTimeMs = U32(MaxMillis)
    /\ _isStreaming
    /\ wsOut = << StatusMsg(evt.id, "ok", "Stream started.") >>

\* The transition Streaming -> Stopped: the stop hook is invoked once, both
\* streaming flags are cleared, and nothing else of the program changes.
StopTransition ==
    /\ hookCalls' = << "stop" >>
    /\ ~_isStreaming' /\ ~isAppStreaming'
    /\ UNCHANGED << _variables, _onStreamStartCallback, _onStreamStopCallback,
                    currentBufferIndex, streamStartTimeMs >>

\* The step is an auto-stop: the last client disconnects from a running
\* stream that has a stop hook.
AutoStopStep ==
    DisconnectStep /\ wsClients' = {} /\ _isStreaming /\ _onStreamStopCallback

\* The step handles a stop_stream in Streaming with a stop hook.
ExplicitStopStep == StopStep /\ _isStreaming /\ _onStreamStopCallback

\* C17: auto-stop performs the same transition as an explicit stop_stream
\* handled in Streaming (stop hook invoked once, state Stopped), but sends
\* no message to any client; the explicit stop sends ok to its requester.
C17_AutoStopLikeExplicitStop ==
    [][ /\ AutoStopStep => (StopTransition /\ wsOut' = << >>)
        /\ ExplicitStopStep =>
               /\ StopTransition
               /\ wsOut' = << StatusMsg(evt'.id, "ok", "Stream stopped.") >>
               /\ UNCHANGED wsClients ]_vars

\* The only client connected has left a running stream: stopped, the stop
\* hook invoked, nothing sent.
C17_Witness ==
    /\ evt.type = "disconnect"
    /\ run.n = 1 /\ run.streaming /\ run.stops = 1
    /\ wsClients = {}
    /\ hookCalls = << "stop" >>
    /\ wsOut = << >>
    /\ ~_isStreaming /\ ~isAppStreaming
    /\ _onStreamStopCallback

\* C18: a stop_stream handled in state Stopped with a stop hook registered
\* is answered with status info "already stopped", does not invoke the stop
\* hook and changes no state.
C18_StopWhenStopped ==
    [][ (StopStep /\ ~_isStreaming /\ _onStreamStopCallback) =>
            /\ wsOut' = << StatusMsg(evt'.id, "info", "Stream was already stopped.") >>
            /\ hookCalls' = << >>
            /\ UNCHANGED << _variables, _onStreamStartCallback, _onStreamStopCallback,
                            _isStreaming, wsClients, isAppStreaming,
                            currentBufferIndex, streamStartTimeMs >> ]_vars

\* A stop_stream has been answered "already stopped" with every client
\* connected.
C18_Witness ==
    /\ evt.type = "data"
    /\ evt.frame = ActionFrame("stop_stream")
    /\ wsClients = ClientIds
    /\ _onStreamStopCallback
    /\ ~_isStreaming /\ ~isAppStreaming
    /\ hookCalls = << >>
    /\ wsOut = << StatusMsg(evt.id, "info", "Stream was already stopped.") >>

\* The step handles a repeated disconnect notification: one for a client
\* that is not connected.
RepeatedDisconnectStep == evt'.type = "disconnect" /\ run'.again

OrphanedStream == _isStreaming /\ wsClients = {} /\ _onStreamStopCallback

AppendStep ==
    \/ loopPc = "write" /\ loopPc' = "incr"
    \/ loopPc = "incr" /\ loopPc' = "full"

\* The step of loop() broadcasts a chunk.
BroadcastStep ==
    FullStep /\ \E i \in 1..Len(wsOut') : wsOut'[i].kind = "binary"

\* C20: no sample is appended to the buffer and no chunk is broadcast while
\* the stream state is Stopped, under every interleaving of command handling
\* with the sampling loop.
C20_NoProductionWhileStopped ==
    [][ (AppendStep \/ BroadcastStep) => (_isStreaming /\ isAppStreaming) ]_vars

\* The same for the broadcast alone.
NoBroadcastWhileStopped ==
    [][ BroadcastStep => (_isStreaming /\ isAppStreaming) ]_vars

\* C21: every sample in an emitted chunk carries a timestamp equal to (the
\* time the sample was taken - the reference time recorded by the most
\* recent Start) modulo 2^32: the chunk broadcast consists of samples written
\* since that Start or the latest flush, each with such a timestamp.
C21_TimestampsSinceStart ==
    [][ BroadcastStep => (chunkIntact /\ chunkStamps) ]_vars

\* The same for the timestamps alone.
StampsSinceStart ==
    [][ BroadcastStep => chunkStamps ]_vars

\* A sample taken after the clock has wrapped, for a stream started before:
\* its timestamp is the milliseconds passed, not a number near 2^32.
WrappedStamp ==
    /\ loopPc = "write"
    /\ streamStartTimeMs = U32Max
    /\ sampleMillis = U32(0)
    /\ currentTimeMs = U32(1)

\* Every variable but the one a set step addresses is as it was.
OthersKept ==
    \A i \in 1..Len(_variables) :
        i # findVariableIndexInternal(_variables, _numVariables, evt'.frame.variable) + 1
            => _variables'[i] = _variables[i]

\* C22: for a Text variable a set succeeds exactly when the candidate is a
\* string, whether or not hasLimits is true, and then stores the string; any
\* other candidate is refused and the stored text stays.
C22_TextAcceptance ==
    [][ (SetStep /\ Target.type = "TYPE_STRING") =>
            /\ Len(_variables') = Len(_variables) /\ OthersKept
            /\ IF Candidate.k = "str"
               THEN /\ Echoed
                    /\ TargetAfter = [Target EXCEPT !.stringValue = Candidate.s]
                    /\ wsOut'[1].value = JStr(Candidate.s)
               ELSE Refused /\ _variables' = _variables ]_vars

\* The text variable with limits [1, 2] holds "b" after a set, and the
\* number 1 has since been refused for it.
C22_Witness ==
    /\ evt.type = "data"
    /\ evt.frame = SetFrame("label", JFloat(Den))
    /\ wsOut = << StatusMsg(evt.id, "error",
                    "Failed to set value (invalid type or out of limits).") >>
    /\ VarAt(_variables, 3).type = "TYPE_STRING"
    /\ VarAt(_variables, 3).hasLimits
    /\ VarAt(_variables, 3).stringValue = "b"

\* C23 (as stated): for a Float variable a candidate passes the type test
\* exactly when it is a number, integer or floating; a string is refused.
\* A candidate v that passes is accepted exactly when hasLimits is false or
\* min <= v <= max, and is stored as a float; a refused one changes nothing.
C23_FloatLimitsOnCandidate ==
    [][ (SetStep /\ Target.type = "TYPE_FLOAT") =>
            /\ Echoed \/ Refused
            /\ Candidate.k \notin {"int", "float"} => Refused
            /\ Candidate.k \in {"int", "float"}
                   => (Echoed <=> InRange(Target, Candidate.n))
            /\ Echoed => TargetAfter = [Target EXCEPT !.floatValue = ToFloat32(Candidate.n)]
            /\ Refused => _variables' = _variables ]_vars

\* C23 (amended): for a Float variable a candidate passes the type test
\* exactly when it is a number, integer or floating; a string is refused.
\* A candidate that passes is rounded to the nearest 32-bit float c, is
\* accepted exactly when hasLimits is false or min <= c <= max, and c is
\* stored; a refused one changes nothing.
C23_FloatAcceptance ==
    [][ (SetStep /\ Target.type = "TYPE_FLOAT") =>
            /\ Echoed \/ Refused
            /\ Len(_variables') = Len(_variables) /\ OthersKept
            /\ Candidate.k \notin {"int", "float"} => Refused
            /\ Candidate.k \in {"int", "float"}
                   => (Echoed <=> InRange(Target, ToFloat32(Candidate.n)))
            /\ Echoed => TargetAfter = [Target EXCEPT !.floatValue = ToFloat32(Candidate.n)]
            /\ Refused => _variables' = _variables ]_vars

\* The float variable gain holds 0 after a set with the integer literal 0.
C23_Witness ==
    /\ evt.type = "data"
    /\ evt.frame = SetFrame("gain", JInt(0))
    /\ Len(_variables) = 5
    /\ VarAt(_variables, 0).type = "TYPE_FLOAT"
    /\ VarAt(_variables, 0).floatValue = 0
    /\ wsOut = << ValueMsg(evt.id, VarAt(_variables, 0)) >>

\* The step handles a get or set envelope.
GetSetStep ==
    /\ evt'.type = "data"
    /\ evt'.frame.opcode = "text" /\ evt'.frame.whole /\ evt'.frame.json
    /\ evt'.frame.action \in {"get", "set"}

\* The envelope's variable field names no variable of the registry.
UnknownName == \A i \in 1..Len(_variables) : _variables[i].name # evt'.frame.variable

\* The step answered its sender with one error status carrying `message`,
\* changed no variable and not the streaming state, and invoked no hook.
ErrorOnly(message) ==
    /\ wsOut' = << StatusMsg(evt'.id, "error", message) >>
    /\ hookCalls' = << >>
    /\ UNCHANGED << _variables, _isStreaming, isAppStreaming >>

\* C24: a get or set whose variable field is absent, or names no registered
\* variable, and a set whose value field is absent or null, is answered
\* with an error status and changes no variable value.
C24_MissingFieldsRefused ==
    [][ GetSetStep =>
            /\ evt'.frame.variable = NullStr
                   => ErrorOnly("Missing 'variable' field for get/set action.")
            /\ (evt'.frame.variable # NullStr /\ UnknownName)
                   => ErrorOnly("Variable name not found.")
            /\ ( /\ evt'.frame.variable # NullStr /\ ~UnknownName
                 /\ evt'.frame.action = "set"
                 /\ evt'.frame.value.k \in {"absent", "null"} )
                   => ErrorOnly("Missing or null 'value' field for set action.") ]_vars

\* A set of led_intensity with a null value has been refused after a set to
\* 255 succeeded: the variable still holds 255.
C24_Witness ==
    /\ evt.type = "data"
    /\ evt.frame = SetFrame("led_intensity", JNull)
    /\ wsOut = << StatusMsg(evt.id, "error",
                    "Missing or null 'value' field for set action.") >>
    /\ VarAt(_variables, 0).name = "led_intensity"
    /\ VarAt(_variables, 0).intValue = 255

\* A get of a name the registry does not hold has been refused.
UnknownNameRefused ==
    /\ evt.type = "data"
    /\ evt.frame = GetFrame("nope")
    /\ wsOut = << StatusMsg(evt.id, "error", "Variable name not found.") >>

\* A whole text frame that does not parse, or parses to something without a
\* string "action".
Malformed(f) ==
    f.opcode = "text" /\ f.whole /\ (~f.json \/ f.action = NullStr)

\* C25: a text frame that cannot be parsed as a structured object, or that
\* has no string action field, is answered with an error status to its
\* sender and changes neither the registry nor the streaming state; the
\* sender stays connected, and the command it sends next is answered.
C25_MalformedRefused ==
    [][ /\ (evt'.type = "data" /\ Malformed(evt'.frame)) =>
               /\ ErrorOnly(IF evt'.frame.json
                            THEN "JSON missing 'action' field."
                            ELSE "Invalid JSON format received.")
               /\ UNCHANGED << wsClients, currentBufferIndex >>
               /\ evt'.id \in wsClients'
        /\ ( /\ evt.type = "data" /\ Malformed(evt.frame)
             /\ evt'.type = "data" /\ evt'.id = evt.id
             /\ evt'.frame = GetFrame("led_intensity") )
               => wsOut' = << ValueMsg(evt.id, VarAt(_variables, 0)) >> ]_vars

\* Text that does not parse has been refused while a stream was running and
\* every client was connected.
C25_Witness ==
    /\ evt.type = "data"
    /\ evt.frame = InvalidJsonFrame
    /\ wsClients = ClientIds
    /\ _isStreaming /\ isAppStreaming
    /\ hookCalls = << >>
    /\ wsOut = << StatusMsg(evt.id, "error", "Invalid JSON format received.") >>

\* C26: a binary frame received from a client produces no response to any
\* client and changes neither variable values nor streaming state nor
\* buffer.
C26_BinaryFrameIgnored ==
    [][ (evt'.type = "data" /\ evt'.frame.opcode = "binary") =>
            /\ wsOut' = << >>
            /\ hookCalls' = << >>
            /\ UNCHANGED << _variables, _onStreamStartCallback, _onStreamStopCallback,
                            _isStreaming, wsClients, isAppStreaming,
                            currentBufferIndex, streamStartTimeMs, chunkIntact,
                            chunkStamps, loopVars >> ]_vars

\* A binary frame has been received while a stream was running with samples
\* in the buffer.
C26_Witness ==
    /\ evt.type = "data"
    /\ evt.frame = BinaryFrame
    /\ _isStreaming /\ isAppStreaming
    /\ currentBufferIndex > 0
    /\ wsOut = << >>
    /\ hookCalls = << >>

\* What of a registry is fixed: per variable, in order, the name, the type,
\* the limits and the hasLimits flag.
Shape(vs) ==
    [i \in 1..Len(vs) |->
        [name |-> vs[i].name, type |-> vs[i].type, minVal |-> vs[i].minVal,
         maxVal |-> vs[i].maxVal, hasLimits |-> vs[i].hasLimits]]

\* C27: whatever clients send, connect or disconnect, the registry keeps the
\* number of variables, their names, types, limits and hasLimits flags it
\* had at initialization; only values change.
C27_RegistryShapeFixed ==
    /\ Shape(_variables) \in {Shape(configurableVariables), Shape(libraryVariables)}
    /\ [][Shape(_variables') = Shape(_variables)]_vars

\* Three values of the registry of main.cpp have been changed by sets.
C27_Witness ==
    /\ Shape(_variables) = Shape(configurableVariables)
    /\ VarAt(_variables, 0).intValue = 255
    /\ VarAt(_variables, 3).stringValue = LongLabel
    /\ evt.type = "data"
    /\ evt.frame.action = "set"

\* initWiFiWebSocketServer was given a negative count, or a positive count
\* and no array.
BadConfig == _numVariables < 0 \/ (_numVariables > 0 /\ _variables = nullptr)

\* No name and no index reaches a variable.
NothingReachable ==
    /\ \A name \in UpdateNames \cup {"device_label", "update_interval"} :
           findVariableIndexInternal(_variables, _numVariables, name) = -1
    /\ \A index \in -1..5, v \in {JInt(1), JFloat(Den), JStr("x")} :
           setVariableValueInternal(_variables, _numVariables, index, v)
               = [ok |-> FALSE, vars |-> _variables]

\* C28: after initWiFiWebSocketServer with a negative count, or with a
\* positive count and no array, the handler is not attached and never will
\* be; every lookup by name reports not found and every set by index fails;
\* no connect, disconnect or data event is handled; broadcastVariableUpdate
\* sends nothing; and the registry is never written.
C28_FailedInitReachesNothing ==
    /\ [](BadConfig => (~wsOnEvent /\ NothingReachable /\ wsClients = {}))
    /\ [][ BadConfig =>
               /\ evt'.type \notin {"connect", "disconnect", "data"}
               /\ wsOut' = << >>
               /\ UNCHANGED << _variables, _numVariables, wsOnEvent >> ]_vars

\* A positive count and no array; the application has registered its hooks
\* and has just called broadcastVariableUpdate("led_intensity").
C28_Witness ==
    /\ _numVariables > 0 /\ _variables = nullptr
    /\ _onStreamStartCallback
    /\ evt.type = "broadcast" /\ evt.frame.variable = "led_intensity"
    /\ wsOut = << >>

\* The registry holds no variable: no array, or a count of 0.
EmptyRegistry == _variables = nullptr \/ _numVariables <= 0

\* C29: get_all_vars_config on an empty registry is answered with one error
\* status, "No variables configured on server.", to the sender, not with a
\* var_config_list; nothing else changes.
C29_EmptyRegistryError ==
    [][ (ConfigListStep /\ EmptyRegistry) =>
            /\ wsOut' = << StatusMsg(evt'.id, "error",
                                     "No variables configured on server.") >>
            /\ hookCalls' = << >>
            /\ UNCHANGED << _variables, _numVariables, _isStreaming, wsClients,
                            isAppStreaming >> ]_vars

\* An array with a count of 0: the request has just been refused.
C29_Witness ==
    /\ evt.type = "data" /\ evt.frame = ActionFrame("get_all_vars_config")
    /\ _variables = configurableVariables /\ _numVariables = 0
    /\ Len(wsOut) = 1 /\ wsOut[1].status = "error"

\* loop() has found the buffer full and has called broadcastBinaryData.
FlushStep == loopPc = "full" /\ loopPc' = "reset"

\* loop() executes currentBufferIndex = 0 after the broadcast.
ResetStep == loopPc = "reset" /\ loopPc' = "check"

\* C30: when loop() finds the buffer full, one binary frame of the whole
\* buffer goes to every client connected at that moment, whoever started
\* the stream, and nothing goes out if no client is connected; no second
\* frame follows before the index is reset, and the reset sets the index to
\* 0 in either case.  broadcastBinaryData sends nothing for a null pointer
\* or a length of 0.
C30_ChunkToAllConnected ==
    /\ [](\A data \in BOOLEAN, len \in {0, PACKET_SIZE_BYTES, CHUNK_BUFFER_SIZE_BYTES} :
             (~data \/ len = 0 \/ wsClients = {})
                 => broadcastBinaryData(data, len, TRUE) = << >>)
    /\ [][ FlushStep =>
               IF wsClients = {}
               THEN wsOut' = << >>
               ELSE /\ Len(wsOut') = 1
                    /\ wsOut'[1].kind = "binary"
                    /\ wsOut'[1].to = wsClients
                    /\ wsOut'[1].len = CHUNK_BUFFER_SIZE_BYTES ]_vars
    /\ [][ loopPc = "reset" =>
               /\ \A i \in 1..Len(wsOut') : wsOut'[i].kind # "binary"
               /\ ResetStep => currentBufferIndex' = 0 ]_vars

\* The chunk has just gone to both clients.
C30_Witness ==
    /\ evt.type = "loop" /\ loopPc = "reset"
    /\ wsClients = ClientIds
    /\ Len(wsOut) = 1 /\ wsOut[1].kind = "binary" /\ wsOut[1].to = ClientIds

\* The buffer was found full with no client connected: nothing has been sent.
C30_NoClient ==
    /\ evt.type = "loop" /\ loopPc = "reset"
    /\ wsClients = {}
    /\ wsOut = << >>

\* The application has called broadcastVariableUpdate.
UpdateStep == evt'.type = "broadcast"

\* The C indices below _numVariables whose entry has the name asked for.
Named == {i \in 0..(_numVariables - 1) : VarAt(_variables, i).name = evt'.frame.variable}

\* The least of a non-empty set of integers.
Least(S) == CHOOSE i \in S : \A j \in S : i <= j

\* C31: broadcastVariableUpdate(name) sends one message with the name and
\* the current value of the first variable of that name to every connected
\* client; it sends nothing when no client is connected, when the registry
\* is empty or absent, or when no variable has the name; it changes no
\* variable, no streaming flag and no client, and invokes no hook.
C31_BroadcastUpdate ==
    [][ UpdateStep =>
            /\ IF wsClients = {} \/ EmptyRegistry
               THEN wsOut' = << >>
               ELSE IF Named = {}
               THEN wsOut' = << >>
               ELSE /\ Len(wsOut') = 1
                    /\ wsOut'[1].kind = "value"
                    /\ wsOut'[1].to = wsClients
                    /\ wsOut'[1].variable = evt'.frame.variable
                    /\ wsOut'[1].value = ValueOf(VarAt(_variables, Least(Named)))
            /\ hookCalls' = << >>
            /\ UNCHANGED << _variables, _numVariables, _isStreaming, isAppStreaming,
                            wsClients, currentBufferIndex >> ]_vars

\* Both clients have just been sent the value of gain that one of them set.
C31_Witness ==
    /\ evt.type = "broadcast" /\ evt.frame.variable = "gain"
    /\ wsClients = ClientIds
    /\ Len(wsOut) = 1
    /\ wsOut[1].to = ClientIds
    /\ wsOut[1].value = JFloat(2 * Den)

\* The answer of start_stream and stop_stream when the hook is missing.
NotConfigured(clientId) ==
    StatusMsg(clientId, "error", "Streaming feature not implemented/configured.")

\* C32: start_stream consults the start hook only and stop_stream the stop
\* hook only.  With a start hook registered, a start_stream in state Stopped
\* moves to Streaming, is answered ok and invokes the start hook, whether or
\* not a stop hook is registered; without a start hook it is refused as not
\* configured.  While no stop hook is registered, every stop_stream is
\* refused as not configured, whether or not a start hook is registered,
\* and neither it nor a disconnect (of the last client too) changes the
\* streaming state or invokes a hook.
C32_HooksIndependent ==
    [][ /\ (StartStep /\ _onStreamStartCallback /\ ~_isStreaming) =>
                /\ _isStreaming'
                /\ wsOut' = << StatusMsg(evt'.id, "ok", "Stream started.") >>
                /\ hookCalls' = << "start" >>
        /\ (StartStep /\ ~_onStreamStartCallback) =>
                /\ wsOut' = << NotConfigured(evt'.id) >>
                /\ hookCalls' = << >>
                /\ UNCHANGED _isStreaming
        /\ (StopStep /\ ~_onStreamStopCallback) =>
                /\ wsOut' = << NotConfigured(evt'.id) >>
                /\ hookCalls' = << >>
                /\ UNCHANGED _isStreaming
        /\ (evt'.type = "disconnect" /\ ~_onStreamStopCallback) =>
                /\ wsOut' = << >>
                /\ hookCalls' = << >>
                /\ UNCHANGED _isStreaming ]_vars

\* Started with a start hook and no stop hook; the last client has just
\* disconnected and the state is still Streaming.
C32_Witness ==
    /\ evt.type = "disconnect"
    /\ wsClients = {}
    /\ _onStreamStartCallback /\ ~_onStreamStopCallback
    /\ _isStreaming
    /\ hookCalls = << >>

\* C33: in the sampling application, whose setup() registers both hooks
\* before any command can start a stream, the library's flag _isStreaming
\* and the application's flag isAppStreaming are equal after every handled
\* event, and loop() never makes them differ.
C33_FlagsAgree == _isStreaming = isAppStreaming

\* The last client has just disconnected from a running stream: both flags
\* are cleared.
C33_Witness ==
    /\ evt.type = "disconnect"
    /\ hookCalls = << "stop" >>
    /\ ~_isStreaming /\ ~isAppStreaming
    /\ currentBufferIndex > 0

\* C34: the invocations of the two hooks alternate, beginning with the start
\* hook.  The state is Stopped at first; a step invokes at most one hook;
\* the start hook is invoked only in state Stopped and leaves the state
\* Streaming; the stop hook is invoked only in state Streaming and leaves
\* the state Stopped; and a step that invokes no hook leaves the state as
\* it is.  So between two invocations of one hook lies one of the other.
C34_HooksAlternate ==
    /\ ~_isStreaming /\ hookCalls = << >>
    /\ [][ /\ Len(hookCalls') <= 1
           /\ hookCalls' = << "start" >> => (~_isStreaming /\ _isStreaming')
           /\ hookCalls' = << "stop" >> => (_isStreaming /\ ~_isStreaming')
           /\ hookCalls' = << >> => UNCHANGED _isStreaming
           /\ hookCalls' \in {<< >>, << "start" >>, << "stop" >>} ]_vars

\* The stop hook has just been invoked, by the disconnect of the last
\* client of a stream that a start_stream had started.
C34_Witness ==
    /\ evt.type = "disconnect"
    /\ hookCalls = << "stop" >>
    /\ run.stops = 1
    /\ wsClients = {}
    /\ ~_isStreaming

\* The step is a connect, a disconnect or a frame handled by onWebSocketEvent.
HandledStep == evt'.type \in {"connect", "disconnect", "data"}

\* C35: after every event handled while a stop hook is registered, a stream
\* that is on has at least one client connected.
C35_StreamingHasClient ==
    [][ (HandledStep /\ _onStreamStopCallback) =>
            (_isStreaming' => wsClients' # {}) ]_vars

\* One of the two clients of a running stream has just disconnected: the
\* stream goes on for the other.
C35_Witness ==
    /\ evt.type = "disconnect"
    /\ _onStreamStopCallback
    /\ _isStreaming
    /\ Cardinality(wsClients) = 1
    /\ hookCalls = << >>

\* A stream is on with a stop hook registered and no client connected.
C35_Orphaned == _onStreamStopCallback /\ _isStreaming /\ wsClients = {}

\* loop() stores the sample at sensorDataBuffer[currentBufferIndex].
WriteStep == loopPc = "write" /\ loopPc' = "incr"

\* C36: whenever loop() writes a sample, the index in memory is within
\* 0..SAMPLES_PER_CHUNK-1, and it stays so while the fields are written,
\* whatever hooks run in between; the index is never outside
\* 0..SAMPLES_PER_CHUNK.
C36_WriteWithinBuffer ==
    /\ [](currentBufferIndex \in 0..SAMPLES_PER_CHUNK)
    /\ [](loopPc \in {"check", "write", "incr"}
              => currentBufferIndex \in 0..(SAMPLES_PER_CHUNK - 1))
    /\ [][ WriteStep => idxReg' \in 0..(SAMPLES_PER_CHUNK - 1) ]_vars

\* The last slot has just been written, in a stream that is a restart.
C36_Witness ==
    /\ loopPc = "incr"
    /\ idxReg = SAMPLES_PER_CHUNK - 1
    /\ currentBufferIndex = SAMPLES_PER_CHUNK - 1
    /\ ~chunkIntact

\* C37: every integer variable with hasLimits, all of which start within
\* their limits, holds a value within [minVal, maxVal] in every state,
\* whatever sets were accepted or refused.
C37_IntWithinLimits ==
    \A i \in 1..Len(_variables) :
        (_variables[i].type = "TYPE_INT" /\ _variables[i].hasLimits)
            => /\ _variables[i].minVal <= IntToDouble(_variables[i].intValue)
               /\ IntToDouble(_variables[i].intValue) <= _variables[i].maxVal

\* led_intensity was set to its maximum, and a set to 256 has just been
\* refused.
C37_Witness ==
    /\ evt.type = "data" /\ evt.frame = SetFrame("led_intensity", JInt(256))
    /\ VarAt(_variables, 0).name = "led_intensity"
    /\ VarAt(_variables, 0).intValue = 255
    /\ Len(wsOut) = 1 /\ wsOut[1].status = "error"

\* Entry b is entry a with, at most, another value in the field of its type.
OnlyValueDiffers(a, b) ==
    CASE a.type = "TYPE_INT"    -> b = [a EXCEPT !.intValue = b.intValue]
      [] a.type = "TYPE_FLOAT"  -> b = [a EXCEPT !.floatValue = b.floatValue]
      [] OTHER                  -> b = [a EXCEPT !.stringValue = b.stringValue]

\* Everything but the registry's values and the observation of the step.
FrameOfCommand ==
    UNCHANGED << _numVariables, wsOnEvent, _onStreamStartCallback,
                 _onStreamStopCallback, _isStreaming, wsClients, isAppStreaming,
                 currentBufferIndex, streamStartTimeMs, loopVars, chunkIntact,
                 chunkStamps >>

\* C38: a set that is answered with the value changes the value of the
\* first entry that has the name, and nothing else: every other entry, of
\* the same name too, the other fields of that entry, the streaming state,
\* the buffer index, the hooks and the clients stay, and no hook runs.  A
\* get and a get_all_vars_config change none of these, nor any entry.
C38_SetChangesOneValue ==
    [][ /\ (evt'.type = "data" /\ evt'.frame.action = "set" /\ Echoed) =>
               /\ Named # {}
               /\ Len(_variables') = Len(_variables)
               /\ \A i \in 0..(Len(_variables) - 1) :
                      IF i = Least(Named)
                      THEN OnlyValueDiffers(VarAt(_variables, i), VarAt(_variables', i))
                      ELSE VarAt(_variables', i) = VarAt(_variables, i)
               /\ hookCalls' = << >>
               /\ FrameOfCommand
        /\ (evt'.type = "data" /\ evt'.frame.action \in {"get", "get_all_vars_config"}) =>
               /\ UNCHANGED _variables
               /\ hookCalls' = << >>
               /\ FrameOfCommand ]_vars

\* The first "gain" has just been set to 128; the second entry of that name
\* holds what it held.
C38_Witness ==
    /\ evt.type = "data" /\ evt.frame = SetFrame("gain", JFloat(128 * Den))
    /\ Len(_variables) = 5
    /\ VarAt(_variables, 0).floatValue = 128 * Den
    /\ VarAt(_variables, 4).name = "gain"
    /\ VarAt(_variables, 4).intValue = 3
    /\ Len(wsOut) = 1 /\ wsOut[1].kind = "value"

\* The one message a step sent, to the sender alone, is the error `message`.
OneError(message) == wsOut' = << StatusMsg(evt'.id, "error", message) >>

\* C39: a get or set is answered with exactly one message, to its sender,
\* decided in this order: no variable field, "Missing 'variable' field";
\* else no variable of that name, "Variable name not found."; else, for a
\* set, no value or a null value, "Missing or null 'value' field"; else the
\* value (a get, an accepted set) or "Failed to set value" (a refused set).
\* A set of an unknown name that lacks a value is answered "Variable name
\* not found.".
C39_ErrorOrder ==
    [][ GetSetStep =>
            /\ Len(wsOut') = 1
            /\ wsOut'[1].to = {evt'.id}
            /\ IF evt'.frame.variable = NullStr
               THEN OneError("Missing 'variable' field for get/set action.")
               ELSE IF Named = {}
               THEN OneError("Variable name not found.")
               ELSE IF evt'.frame.action = "set" /\ IsNull(evt'.frame.value)
               THEN OneError("Missing or null 'value' field for set action.")
               ELSE IF evt'.frame.action = "set"
               THEN Echoed \/ Refused
               ELSE Echoed ]_vars

\* A set that names no variable and carries no value has just been answered
\* "Variable name not found.".
C39_Witness ==
    /\ evt.type = "data" /\ evt.frame = SetFrame("nope", JAbsent)
    /\ wsOut = << StatusMsg(evt.id, "error", "Variable name not found.") >>

\* ---------------------------------------------------------------- C40

\* The texts of the replies to start_stream and stop_stream.
StreamReplies ==
    { "Stream started.", "Stream was already active.",
      "Stream stopped.", "Stream was already stopped.",
      "Streaming feature not implemented/configured." }

\* The page with connection id c processes the reply to a stream command of
\* its own (the replies go to the sender alone).
ReplyStep(c) ==
    /\ evt'.type = "message"
    /\ evt'.id = c
    /\ Head(browser[c].down).kind = "status"
    /\ Head(browser[c].down).message \in StreamReplies

\* C40: once a page has processed the status reply to its own start_stream
\* or stop_stream command, its streaming flag is true after "started" or
\* "already active", false after "stopped" or "already stopped", and not
\* true after an error reply.
C40_ClientFlagFollowsReply ==
    [][\A c \in ClientIds :
          ReplyStep(c) =>
              LET message == Head(browser[c].down)
                  flag    == browser'[c].isClientStreaming
              IN  /\ message.message \in {"Stream started.", "Stream was already active."}
                        => flag
                  /\ message.message \in {"Stream stopped.", "Stream was already stopped."}
                        => ~flag
                  /\ message.status = "error" => ~flag]_vars

\* What the code does with these replies: none of the texts the handler
\* looks for occurs in a reply of the device, so the flag stays as the
\* button left it.
C40_ReplyLeavesFlag ==
    [][\A c \in ClientIds :
          ReplyStep(c) =>
              browser'[c].isClientStreaming = browser[c].isClientStreaming]_vars

\* A page has processed the error reply to its start_stream command, the
\* device is not streaming, and the page's flag is true.
C40_FlagTrueAfterError ==
    /\ evt.type = "message"
    /\ browser[evt.id].isClientStreaming
    /\ browser[evt.id].down = << >>
    /\ browser[evt.id].up = << >>
    /\ ~_isStreaming
    /\ ~_onStreamStartCallback
    /\ wsClients = {evt.id}
====
